---- MODULE Spec2Model ----
(***************************************************************************)
(* Lichess user search (liusearch): the multi-mode search engine of        *)
(* app.rs -- pattern compilation, the chunked parallel scan, the result    *)
(* ranking and the metadata enrichment -- as a state machine over one      *)
(* loaded session.                                                         *)
(*                                                                         *)
(* Strings are sequences of one-character strings.  Option<T> is a set:    *)
(* {} is None and {x} is Some(x).                                          *)
(***************************************************************************)
EXTENDS Integers, Sequences, FiniteSets, TLC

(***************************************************************************)
(* Bounds of the model.  ChunkSize, ProgressBatch, FetchGroupSize and      *)
(* FetchGroups stand for 100_000, 0xfff + 1, 300 and 5 of app.rs, scaled   *)
(* down so that several chunks, several progress batches and several       *)
(* lookup groups occur on a corpus of MaxUsers entries.  MaxClose stands   *)
(* for MAX_CLOSE = 250.                                                    *)
(***************************************************************************)
MaxUsers == 5
ChunkSize == 4
ProgressBatch == 3
FetchGroupSize == 1
FetchGroups == 2
MaxProbeKey == 4
MaxClose == 4

Min2(a, b) == IF a <= b THEN a ELSE b
\* A variant that takes its first argument, for comparison.
Max2Left(a, b) == a

Max2(a, b) == IF a >= b THEN a ELSE b

RECURSIVE SeqMin(_)
SeqMin(s) == IF Len(s) = 1 THEN s[1] ELSE Min2(s[1], SeqMin(Tail(s)))

(***************************************************************************)
(* str::to_ascii_lowercase                                                 *)
(***************************************************************************)
AsciiUpper == <<"A","B","C","D","E","F","G","H","I","J","K","L","M",
                "N","O","P","Q","R","S","T","U","V","W","X","Y","Z">>
AsciiLower == <<"a","b","c","d","e","f","g","h","i","j","k","l","m",
                "n","o","p","q","r","s","t","u","v","w","x","y","z">>

LowerChar(c) ==
    IF \E i \in 1..26 : AsciiUpper[i] = c
    THEN AsciiLower[CHOOSE i \in 1..26 : AsciiUpper[i] = c]
    ELSE c

ToAsciiLowercase(s) == [i \in 1..Len(s) |-> LowerChar(s[i])]

(***************************************************************************)
(* str::contains and str::replace (every occurrence of a character of      *)
(* `from` becomes the text `to`)                                           *)
(***************************************************************************)
Contains(hay, needle) ==
    \E i \in 0..(Len(hay) - Len(needle)) :
        SubSeq(hay, i + 1, i + Len(needle)) = needle

RECURSIVE Replace(_, _, _)
Replace(s, from, to) ==
    IF s = <<>> THEN <<>>
    ELSE (IF Head(s) \in from THEN to ELSE <<Head(s)>>) \o Replace(Tail(s), from, to)

(***************************************************************************)
(* The character-class rewriting of SearchMode::NumberReplacements         *)
(***************************************************************************)
\* A variant that leaves the letter l as it is, for comparison.
ExpandClassesOfIOnly(pattern) ==
    LET p1 == Replace(pattern, {"a"}, <<"[","a","4","]">>)
        p2 == Replace(p1, {"e"}, <<"[","e","3","]">>)
        p3 == Replace(p2, {"g"}, <<"[","g","q","9","]">>)
        p4 == Replace(p3, {"i"}, <<"[","i","l","1","]">>)
        p5 == Replace(p4, {"o"}, <<"[","o","0","]">>)
        p6 == Replace(p5, {"s"}, <<"[","s","5","]">>)
        p7 == Replace(p6, {"u"}, <<"[","u","v","]">>)
    IN  Replace(p7, {"z"}, <<"[","z","2","]">>)

ExpandClasses(pattern) ==
    LET p1 == Replace(pattern, {"a"}, <<"[","a","4","]">>)
        p2 == Replace(p1, {"e"}, <<"[","e","3","]">>)
        p3 == Replace(p2, {"g"}, <<"[","g","q","9","]">>)
        p4 == Replace(p3, {"i","l"}, <<"[","i","l","1","]">>)
        p5 == Replace(p4, {"o"}, <<"[","o","0","]">>)
        p6 == Replace(p5, {"s"}, <<"[","s","5","]">>)
        p7 == Replace(p6, {"u"}, <<"[","u","v","]">>)
    IN  Replace(p7, {"z"}, <<"[","z","2","]">>)

(***************************************************************************)
(* Regex::new and Regex::is_match on the fragment the patterns of the      *)
(* model use: literal characters, bracketed classes "[...]" and the group  *)
(* opener "(", which no pattern of the model closes.  A compiled           *)
(* expression is the sequence of the character sets of its positions.      *)
(***************************************************************************)
RegexError == [ok |-> FALSE, items |-> <<>>]

RECURSIVE ParseRegex(_)
ParseRegex(s) ==
    IF s = <<>> THEN [ok |-> TRUE, items |-> <<>>]
    ELSE IF Head(s) = "(" THEN RegexError
    ELSE IF Head(s) = "["
         THEN IF \E j \in 3..Len(s) : s[j] = "]"
              THEN LET j == CHOOSE j \in 3..Len(s) :
                                s[j] = "]" /\ \A h \in 3..(j - 1) : s[h] # "]"
                       rest == ParseRegex(SubSeq(s, j + 1, Len(s)))
                   IN  IF rest.ok
                       THEN [ok |-> TRUE,
                             items |-> <<{s[h] : h \in 2..(j - 1)}>> \o rest.items]
                       ELSE RegexError
              ELSE RegexError
    ELSE LET rest == ParseRegex(Tail(s))
         IN  IF rest.ok
             THEN [ok |-> TRUE, items |-> <<{Head(s)}>> \o rest.items]
             ELSE RegexError

RegexNew(pattern) == ParseRegex(pattern)

RegexIsMatch(regex, text) ==
    \E i \in 0..(Len(text) - Len(regex.items)) :
        \A j \in 1..Len(regex.items) : text[i + j] \in regex.items[j]

(***************************************************************************)
(* LevenshteinSettings and LevenshteinSettings::edit_costs (model.rs):     *)
(* EditCosts::new(mismatch_cost, gap_cost, 0, Some(swap_cost))             *)
(***************************************************************************)
DefaultLevenshteinSettings ==
    [max_k |-> 3, mismatch_cost |-> 1, gap_cost |-> 1, swap_cost |-> 1]

edit_costs(lev) ==
    [mismatch_cost |-> lev.mismatch_cost, gap_cost |-> lev.gap_cost,
     start_gap_cost |-> 0, transpose_cost |-> {lev.swap_cost}]

(***************************************************************************)
(* triple_accel's weighted edit-distance table, one row per needle         *)
(* character.  Row i holds, for every haystack position j, the cheapest    *)
(* way to turn needle[1..i] into a stretch of the haystack that ends at j, *)
(* by mismatches, gaps (with an opening cost) and swaps of two adjacent    *)
(* characters.  `first` is row 0: all zero when the match may start        *)
(* anywhere (a search), j * gap_cost when it must start at the beginning.  *)
(***************************************************************************)
RECURSIVE BuildRow(_, _, _, _, _, _, _)
BuildRow(needle, hay, costs, i, prev2, prev, cur) ==
    IF Len(cur) = Len(hay) + 1 THEN cur
    ELSE LET j == Len(cur)
             gap == costs.gap_cost + costs.start_gap_cost
             sub == prev[j] + (IF needle[i] = hay[j] THEN 0 ELSE costs.mismatch_cost)
             del == prev[j + 1] + gap
             ins == cur[j] + gap
             edit == Min2(sub, Min2(del, ins))
             swap == /\ costs.transpose_cost # {}
                     /\ i >= 2 /\ j >= 2
                     /\ needle[i] = hay[j - 1] /\ needle[i - 1] = hay[j]
             best == IF swap
                     THEN Min2(edit, prev2[j - 1]
                                     + (CHOOSE c \in costs.transpose_cost : TRUE))
                     ELSE edit
         IN  BuildRow(needle, hay, costs, i, prev2, prev, Append(cur, best))

RECURSIVE LastRow(_, _, _, _, _, _)
LastRow(needle, hay, costs, i, prev2, prev) ==
    IF i > Len(needle) THEN prev
    ELSE LastRow(needle, hay, costs, i + 1, prev,
                 BuildRow(needle, hay, costs, i, prev2, prev,
                          <<i * (costs.gap_cost + costs.start_gap_cost)>>))

SearchRow(needle, hay, costs) ==
    LastRow(needle, hay, costs, 1, <<>>, [j \in 1..(Len(hay) + 1) |-> 0])

(***************************************************************************)
(* levenshtein_search_simd_with_opts(needle, haystack, k, SearchType::Best,*)
(* costs, anchored = false).next().map(|m| m.k): the cost of the cheapest  *)
(* occurrence of the needle anywhere in the haystack, when it is <= k.     *)
(***************************************************************************)
\* The same search with the match anchored at the start of the haystack
\* (anchored = true), for comparison.
LevenshteinSearchAnchored(needle, hay, k, costs) ==
    LET first == [j \in 1..(Len(hay) + 1) |->
                      (j - 1) * (costs.gap_cost + costs.start_gap_cost)]
        best == SeqMin(LastRow(needle, hay, costs, 1, <<>>, first))
    IN  IF best <= k THEN {best} ELSE {}

\* A variant that reports the best cost whatever the limit, for comparison.
LevenshteinSearchBestUnbounded(needle, hay, k, costs) ==
    {SeqMin(SearchRow(needle, hay, costs))}

LevenshteinSearchBest(needle, hay, k, costs) ==
    LET best == SeqMin(SearchRow(needle, hay, costs))
    IN  IF best <= k THEN {best} ELSE {}

(***************************************************************************)
(* Searcher (model.rs) and Searcher::matches (app.rs)                      *)
(***************************************************************************)
NoRegex == [ok |-> TRUE, items |-> <<>>]

SearcherPlain(pattern) ==
    [kind |-> "Plain", pattern |-> pattern, regex |-> NoRegex,
     lev |-> DefaultLevenshteinSettings]
SearcherRegex(regex) ==
    [kind |-> "Regex", pattern |-> <<>>, regex |-> regex,
     lev |-> DefaultLevenshteinSettings]
SearcherLevenshtein(pattern, lev) ==
    [kind |-> "Levenshtein", pattern |-> pattern, regex |-> NoRegex, lev |-> lev]

MatchesLevenshtein(pattern, lev, username) ==
    IF Len(username) < Len(pattern) THEN {}
    ELSE LevenshteinSearchBest(pattern, username, lev.max_k, edit_costs(lev))

Matches(searcher, username) ==
    CASE searcher.kind = "Plain" ->
            IF Contains(username, searcher.pattern) THEN {0} ELSE {}
      [] searcher.kind = "Regex" ->
            IF RegexIsMatch(searcher.regex, username) THEN {0} ELSE {}
      [] searcher.kind = "Levenshtein" ->
            MatchesLevenshtein(searcher.pattern, searcher.lev, username)

(***************************************************************************)
(* The pattern compilation at the head of App::do_search: the pattern is   *)
(* lower-cased for every mode, then turned into the mode's Searcher.       *)
(***************************************************************************)
SearchModes == {"Plain", "NumberReplacements", "Levenshtein", "RegEx"}

CompileSearcher(raw, mode, lev) ==
    LET pattern == ToAsciiLowercase(raw)
    IN  CASE mode = "Plain" ->
                [ok |-> TRUE, searcher |-> SearcherPlain(pattern)]
          [] mode = "NumberReplacements" ->
                LET regex == RegexNew(ExpandClasses(pattern))
                IN  [ok |-> regex.ok, searcher |-> SearcherRegex(regex)]
          [] mode = "Levenshtein" ->
                [ok |-> TRUE, searcher |-> SearcherLevenshtein(pattern, lev)]
          [] mode = "RegEx" ->
                LET regex == RegexNew(pattern)
                IN  [ok |-> regex.ok, searcher |-> SearcherRegex(regex)]

(***************************************************************************)
(* Username and Match (model.rs)                                           *)
(***************************************************************************)
Username(name) == [id |-> ToAsciiLowercase(name), name |-> name]

MatchNew(user, k) ==
    [id |-> user.id, name |-> user.name, enabled |-> TRUE,
     created_at |-> {}, seen_at |-> {}, games |-> 0, k |-> k]

MatchFrom(name) ==
    [id |-> ToAsciiLowercase(name), name |-> name, enabled |-> TRUE,
     created_at |-> {}, seen_at |-> {}, games |-> 0, k |-> 0]

(***************************************************************************)
(* The inputs of the model: the lines of the loaded file, the patterns the *)
(* operator types, the cost settings, the clipboard texts and the answers  *)
(* of the lookup service.  Times are milliseconds since the epoch.         *)
(***************************************************************************)
BaseNames ==
    << <<"M","a","g">>, <<"h","i","k">>, <<"m","4","g">>,
       <<"a","m","g">>, <<"m","a","g","5">> >>

PoolName(i) == BaseNames[((i - 1) % Len(BaseNames)) + 1]

Corpora == {[i \in 1..n |-> Username(PoolName(i))] : n \in 0..MaxUsers}

PatternChoices ==
    { <<"M","a","g">>, <<"m","a">>, <<"m","a","(">> }

LevChoices ==
    { [max_k |-> 1, mismatch_cost |-> 1, gap_cost |-> 1, swap_cost |-> 1],
      [max_k |-> 2, mismatch_cost |-> 2, gap_cost |-> 1, swap_cost |-> 1] }

ClipboardChoices == { <<>>, << <<"H","i","k">> >> }

ApiUser(created_at, seen_at, disabled, games) ==
    [created_at |-> created_at, seen_at |-> seen_at, disabled |-> disabled,
     games |-> games]

\* What the lookup service knows, by account id: creation time, last-seen
\* time, whether the account is closed, and its number of games.
ApiDirectory ==
    (<<"m","a","g">>     :> ApiUser({1000}, {2000}, FALSE, 1)) @@
    (<<"m","a","g","5">> :> ApiUser({3000}, {2500}, TRUE, 0)) @@
    (<<"m","4","g">>     :> ApiUser({}, {}, FALSE, 2)) @@
    (<<"a","m","g">>     :> ApiUser({1000}, {3000}, FALSE, 0)) @@
    (<<"h","i","k">>     :> ApiUser({1000}, {2000}, FALSE, 5))

(***************************************************************************)
(* LoadedState (model.rs) and the background thread working on it          *)
(***************************************************************************)
VARIABLES
    users,          \* LoadedState.users: the corpus
    pattern,        \* LoadedState.pattern: the text of the search box
    results,        \* LoadedState.results: Mutex<Vec<Match>>
    processing,     \* LoadedState.processing
    page,           \* LoadedState.page
    progress,       \* LoadedState.progress
    progress_max,   \* LoadedState.progress_max
    pc,             \* where the background thread stands
    job,            \* what the background thread was started with
    pos,            \* per chunk: how many of its users the worker has scanned
    curr,           \* per chunk: the worker's local buffer `curr`
    flushed,        \* per chunk: whether `curr` was appended to results
    names,          \* do_fetch_info_inner: the names to look up
    max,            \* do_fetch_info_inner: how many leading results they cover
    group,          \* do_fetch_info_inner: lookup groups answered so far
    api_users,      \* do_fetch_info_inner: the answers, by id
    error,          \* the message show_error displayed for the last request
    app,            \* App.state: the session shown, and a session loaded anew
    last,           \* the step taken last
    calls,          \* the requests the background thread has sent out
    probe,          \* matcher harness: one (pattern, key, settings) and its outcome
    threads,        \* frame model: the kinds of the background threads running
    settings,       \* the fields of App the settings bar and the result grid edit
    loading,        \* LoadingState: the done flag and the result slot of the loader
    locks,          \* the mutexes: who holds each, and what each thread has left to do
    grid            \* the result grid as the last frame has shown it

vars == <<users, pattern, results, processing, page, progress, progress_max,
          pc, job, pos, curr, flushed, names, max, group, api_users,
          error, last, calls, probe, app, threads, settings, loading, locks, grid>>

NoJob == [kind |-> "none", mode |-> "Plain", searcher |-> SearcherPlain(<<>>),
          fetch_info |-> FALSE, hide_closed |-> FALSE, shown |-> 0,
          api_key |-> FALSE]
NoProbe == [pattern |-> <<>>, key |-> <<>>, lev |-> DefaultLevenshteinSettings,
            out |-> {}, done |-> FALSE]
EmptyMap == [x \in {} |-> 0]

\* A LoadedState is a bundle of shared cells (Arc): `s` names the bundle that
\* App.state holds.  Bundle 1 is the session the variables above describe,
\* the one a thread spawned from it keeps a clone of; `fresh` is the bundle a
\* later State::loaded builds, empty until then.
NoSession == [users |-> <<>>, results |-> <<>>, processing |-> FALSE,
              progress |-> 0, progress_max |-> 0]
FirstSession ==
    [state |-> "Loaded", s |-> 1, fresh |-> NoSession, replaced |-> FALSE]


\* The page sizes of the result grid, 10..=100 and 20 to begin with, scaled
\* down to the corpora of the model.
MinPageSize == 1
DefaultPageSize == 2
MaxPageSize == 3

\* `impl Default for App` with `impl Default for LevenshteinSettings`
DefaultSettings ==
    [page_size |-> DefaultPageSize,
     search_mode |-> "Plain",
     levenshtein_settings |-> DefaultLevenshteinSettings,
     saved_borderline |-> {},
     saved_obvious |-> {}]

\* `LoadingState::new()`: nothing done, the slot empty (Option::None);
\* `taken` lists what the poller has taken out of the slot
NoLoading == [done |-> FALSE, result |-> [kind |-> "None"], taken |-> <<>>]

\* The three mutexes of the program: LoadedState.results, LoadingState.result
\* and App.update
Locks == {"results", "result", "update"}

\* The threads that use them: the thread of App::update, the two rayon
\* workers of a search, the thread spawned by do_search, do_fetch_info or
\* the close handler, the loader thread and the update check of App::new
Workers == {"worker1", "worker2"}
Threads == {"ui", "background", "loader", "checker"} \cup Workers

\* No mutex held or poisoned, no thread started
NoLocks == [holder |-> [l \in Locks |-> "free"],
            todo |-> [t \in Threads |-> <<>>],
            poisoned |-> FALSE]

\* Nothing shown yet: no slice of the results, no row clicked
NoGrid == [min |-> 0, max |-> 0, len |-> 0, reset |-> FALSE, clicked |-> "none",
           name |-> <<>>, obvious |-> FALSE, borderline |-> FALSE]

\* The step taken last, with the job it belongs to ("done": the job that
\* has just ended).
Step(kind, j) == [kind |-> kind, job |-> j]

\* State::loaded(users)
Loaded(corpus) ==
    /\ users = corpus
    /\ pattern = <<>>
    /\ results = <<>>
    /\ processing = FALSE
    /\ page = 0
    /\ progress = 0
    /\ progress_max = 1

Init ==
    /\ \E corpus \in Corpora : Loaded(corpus)
    /\ pc = "idle"
    /\ job = NoJob
    /\ pos = <<>> /\ curr = <<>> /\ flushed = <<>>
    /\ names = <<>> /\ max = 0 /\ group = 0 /\ api_users = EmptyMap
    /\ error = "none"
    /\ last = Step("loaded", NoJob)
    /\ calls = <<>>
    /\ probe = NoProbe
    /\ app = FirstSession
    /\ threads = <<>>
    /\ settings = DefaultSettings
    /\ loading = NoLoading
    /\ locks = NoLocks
    /\ grid = NoGrid

thread_vars == <<pos, curr, flushed>>
fetch_vars == <<names, max, group, api_users>>

(***************************************************************************)
(* par_chunks(100_000): contiguous chunks, the last one may be shorter     *)
(***************************************************************************)
NumChunks == (Len(users) + ChunkSize - 1) \div ChunkSize
ChunkStart(c) == (c - 1) * ChunkSize
ChunkLen(c) == Min2(ChunkSize, Len(users) - ChunkStart(c))

\* `if s.pattern.len() < 3 { return; }`
\* A variant that lets patterns of two characters through, for comparison.
PatternTooShortTwo(raw) == Len(raw) < 2

PatternTooShort(raw) == Len(raw) < 3

\* `s.progress.fetch_add(0xfff, SeqCst)` when `i & 0xfff == 0`
ProgressDue(i) == i % ProgressBatch = 0
\* A variant that adds the whole batch (0x1000), for comparison.
ProgressAddWhole == ProgressBatch

ProgressAdd == ProgressBatch - 1

\* A variant that stores the worker's own count instead of adding to the
\* shared counter, for comparison.
ProgressStoreLocal(p, i) == i + ProgressAdd

ProgressTick(p, i) == p + ProgressAdd

(***************************************************************************)
(* The Search request of App::update followed by App::do_search up to the  *)
(* spawn.  The second taskbar is enabled only while processing is false.   *)
(***************************************************************************)
SpawnSearch(mode, searcher, fetch_info, hide_closed) ==
    /\ processing' = TRUE
    /\ progress' = 0
    /\ progress_max' = Max2(Len(users), 1)
    /\ pc' = "scan"
    /\ job' = [NoJob EXCEPT !.kind = "search", !.mode = mode,
                            !.searcher = searcher, !.fetch_info = fetch_info,
                            !.hide_closed = hide_closed]
    /\ pos' = [c \in 1..NumChunks |-> 0]
    /\ curr' = [c \in 1..NumChunks |-> <<>>]
    /\ flushed' = [c \in 1..NumChunks |-> FALSE]
    /\ error' = "none"

\* A variant of the early return that leaves processing set, for comparison.
NoSearchKeepsFlag(shown) ==
    /\ error' = shown
    /\ processing' = TRUE
    /\ UNCHANGED <<progress, progress_max, pc, job, thread_vars>>

NoSearch(shown) ==
    /\ error' = shown
    /\ UNCHANGED <<processing, progress, progress_max, pc, job, thread_vars>>

DoSearch(raw, mode, lev, fetch_info, hide_closed) ==
    IF PatternTooShort(raw) THEN NoSearch("none")
    ELSE LET compiled == CompileSearcher(raw, mode, lev)
         IN  IF compiled.ok
             THEN SpawnSearch(mode, compiled.searcher, fetch_info, hide_closed)
             ELSE NoSearch("regex")

StartSearch(raw, mode, lev, fetch_info, hide_closed) ==
    /\ pc # "panicked"
    /\ ~processing
    /\ pattern' = raw
    /\ last' = Step("search", [NoJob EXCEPT !.mode = mode])
    /\ IF users = <<>>
       THEN /\ error' = "no user list"
            /\ UNCHANGED <<results, page, processing, progress, progress_max,
                           pc, job, thread_vars>>
       ELSE /\ page' = 0
            /\ results' = <<>>
            /\ DoSearch(raw, mode, lev, fetch_info, hide_closed)
    /\ UNCHANGED <<users, fetch_vars, calls, probe, app, threads, settings, loading, locks, grid>>

(***************************************************************************)
(* One chunk worker of the par_chunks closure: scan the next user of the   *)
(* chunk, and append the local buffer to results once the chunk is done.   *)
(***************************************************************************)
Scan(c) ==
    /\ pc = "scan"
    /\ pos[c] < ChunkLen(c)
    /\ LET i == pos[c]
           user == users[ChunkStart(c) + i + 1]
           found == Matches(job.searcher, user.id)
       IN  /\ curr' = [curr EXCEPT ![c] =
                          IF found = {} THEN @
                          ELSE Append(@, MatchNew(user, CHOOSE k \in found : TRUE))]
           /\ progress' = IF ProgressDue(i) THEN ProgressTick(progress, i) ELSE progress
           /\ pos' = [pos EXCEPT ![c] = i + 1]
    /\ last' = Step("scan", job)
    /\ UNCHANGED <<users, pattern, results, processing, page, progress_max, pc,
                   job, flushed, fetch_vars, error, calls, probe, app, threads, settings, loading, locks, grid>>

\* A variant that puts the local buffer in the place of the results instead
\* of appending it, for comparison.
FlushReplacing(c) ==
    /\ pc = "scan"
    /\ pos[c] = ChunkLen(c)
    /\ ~flushed[c]
    /\ results' = curr[c]
    /\ flushed' = [flushed EXCEPT ![c] = TRUE]
    /\ last' = Step("flush", job)
    /\ UNCHANGED <<users, pattern, processing, page, progress, progress_max, pc,
                   job, pos, curr, fetch_vars, error, calls, probe, app, threads, settings, loading, locks, grid>>

Flush(c) ==
    /\ pc = "scan"
    /\ pos[c] = ChunkLen(c)
    /\ ~flushed[c]
    /\ results' = results \o curr[c]
    /\ flushed' = [flushed EXCEPT ![c] = TRUE]
    /\ last' = Step("flush", job)
    /\ UNCHANGED <<users, pattern, processing, page, progress, progress_max, pc,
                   job, pos, curr, fetch_vars, error, calls, probe, app, threads, settings, loading, locks, grid>>

(***************************************************************************)
(* slice::sort_unstable_by_key: the result is ordered by the key, and the  *)
(* order of elements with equal keys is not specified.  SortedOrders is    *)
(* the set of index orders the sort may produce for the given keys.        *)
(***************************************************************************)
KeyLeq(a, b) ==
    \A i \in 1..Len(a) : (\A j \in 1..(i - 1) : a[j] = b[j]) => a[i] <= b[i]

RECURSIVE SortedOrders(_, _)
SortedOrders(keys, remaining) ==
    IF remaining = {} THEN {<<>>}
    ELSE LET least == {i \in remaining : \A j \in remaining : KeyLeq(keys[i], keys[j])}
         IN  UNION {{<<i>> \o rest : rest \in SortedOrders(keys, remaining \ {i})}
                    : i \in least}

SortUnstableByKey(s, keys) ==
    {[n \in 1..Len(s) |-> s[order[n]]] : order \in SortedOrders(keys, 1..Len(s))}

\* DateTime::timestamp: whole seconds since the epoch
Timestamp(t) == t \div 1000

\* `opt.map_or(0, |t| t.timestamp())`
TimestampOrZero(opt) == IF opt = {} THEN 0 ELSE Timestamp(CHOOSE t \in opt : TRUE)

\* `sort_unstable_by_key(|m| m.k)` of do_search
\* A variant that ranks by descending score, for comparison.
ScoreKeyDescending(m) == <<-m.k>>

ScoreKey(m) == <<m.k>>
SortByScore(res) == SortUnstableByKey(res, [i \in 1..Len(res) |-> ScoreKey(res[i])])

\* The key of the sort in do_fetch_info_inner.  `u32::MAX - m.games` orders
\* by descending games and cannot overflow; it is kept as -games, 2^32 - 1
\* being outside the integers of the model checker.
\* A variant with the creation time ascending, for comparison.
CompositeKeyCreatedAscending(m) ==
    <<m.k, -TimestampOrZero(m.seen_at), TimestampOrZero(m.created_at), -m.games>>

CompositeKey(m) ==
    <<m.k, -TimestampOrZero(m.seen_at), -TimestampOrZero(m.created_at), -m.games>>
SortComposite(res) ==
    SortUnstableByKey(res, [i \in 1..Len(res) |-> CompositeKey(res[i])])

(***************************************************************************)
(* The end of the search thread: the join of the chunk workers, the sort   *)
(* of a Levenshtein search, then either the enrichment or the clearing of  *)
(* the processing flag.                                                    *)
(***************************************************************************)
\* A variant without the sort, for comparison.
SortOfModeNone(mode, res) == {res}

SortOfMode(mode, res) == IF mode = "Levenshtein" THEN SortByScore(res) ELSE {res}

AfterSort(fetch_info) == IF fetch_info THEN "fetch" ELSE "clear"

SortResults ==
    /\ pc = "scan"
    /\ \A c \in 1..NumChunks : flushed[c]
    /\ results' \in SortOfMode(job.mode, results)
    /\ pc' = AfterSort(job.fetch_info)
    /\ last' = Step("sort", job)
    /\ UNCHANGED <<users, pattern, processing, page, progress, progress_max,
                   job, thread_vars, fetch_vars, error, calls, probe, app, threads, settings, loading, locks, grid>>

\* `processing.store(false, SeqCst)`, and the thread ends
ClearProcessing ==
    /\ pc = "clear"
    /\ processing' = FALSE
    /\ pc' = "idle"
    /\ job' = NoJob
    /\ pos' = <<>> /\ curr' = <<>> /\ flushed' = <<>>
    /\ names' = <<>> /\ max' = 0 /\ group' = 0 /\ api_users' = EmptyMap
    /\ calls' = <<>>
    /\ last' = Step("done", job)
    /\ UNCHANGED <<users, pattern, results, page, progress, progress_max,
                   error, probe, app, threads, settings, loading, locks, grid>>

(***************************************************************************)
(* App::do_fetch_info and App::do_fetch_info_inner                         *)
(***************************************************************************)
ClickFetchInfo(hide_closed) ==
    /\ pc # "panicked"
    /\ ~processing
    /\ processing' = TRUE
    /\ pc' = "fetch"
    /\ job' = [NoJob EXCEPT !.kind = "fetch", !.hide_closed = hide_closed]
    /\ error' = "none"
    /\ last' = Step("fetch_info", NoJob)
    /\ UNCHANGED <<users, pattern, results, page, progress, progress_max,
                   thread_vars, fetch_vars, calls, probe, app, threads, settings, loading, locks, grid>>

\* A variant that takes every match, for comparison.
FetchLimitUncapped(n) == n

\* `results.len().min(5 * 300)`
FetchLimit(n) == Min2(n, FetchGroups * FetchGroupSize)

FetchInit ==
    /\ pc = "fetch"
    /\ progress' = 0
    /\ max' = FetchLimit(Len(results))
    /\ progress_max' = Max2(max', 1)
    /\ names' = [i \in 1..max' |-> results[i].name]
    /\ group' = 0
    /\ api_users' = EmptyMap
    /\ pc' = IF max' = 0 THEN "merge" ELSE "lookup"
    /\ last' = Step("fetch_init", job)
    /\ UNCHANGED <<users, pattern, results, processing, page, job, thread_vars,
                   error, calls, probe, app, threads, settings, loading, locks, grid>>

\* One request sent out by the background thread: the position of the name
\* or of the group it is for, and what is asked ("users": a lookup of a
\* group of names, "close" and "note": the two requests of close_account).
Request(i, name, kind, asked) == [i |-> i, name |-> name, kind |-> kind, asked |-> asked]

\* names.chunks(300): the group after `done` answered groups
GroupNames(done) ==
    SubSeq(names, done * FetchGroupSize + 1,
           Min2(Len(names), (done + 1) * FetchGroupSize))

\* api::fetch_users: the service answers, by id, for the asked names it
\* knows, or for all of them but one
Responses(asked) ==
    LET known == {ToAsciiLowercase(asked[i]) : i \in 1..Len(asked)}
                 \cap DOMAIN ApiDirectory
    IN  {[id \in ids |-> ApiDirectory[id]] :
            ids \in {known} \cup {known \ {id} : id \in known}}

Lookup ==
    /\ pc = "lookup"
    /\ calls' = Append(calls, Request(group + 1, <<>>, "users", GroupNames(group)))
    /\ \/ \E resp \in Responses(GroupNames(group)) :
            /\ api_users' = resp @@ api_users
            /\ progress' = progress + 1
            /\ group' = group + 1
            /\ pc' = IF group' * FetchGroupSize < Len(names) THEN "lookup" ELSE "merge"
            /\ error' = error
       \/ /\ error' = "fetch"
          /\ pc' = "merge"
          /\ UNCHANGED <<api_users, progress, group>>
    /\ last' = Step("lookup", job)
    /\ UNCHANGED <<users, pattern, results, processing, page, progress_max, job,
                   thread_vars, names, max>>
    /\ UNCHANGED <<probe, app, threads, settings, loading, locks, grid>>

Without(map, id) == [x \in (DOMAIN map) \ {id} |-> map[x]]

\* `for user in results[..max].iter_mut() { if let Some(u) = api_users.remove(&user.id) ..`
RECURSIVE ApplyApiUsers(_, _, _, _)
ApplyApiUsers(res, i, n, map) ==
    IF i > n THEN res
    ELSE IF res[i].id \in DOMAIN map
         THEN LET u == map[res[i].id]
              IN  ApplyApiUsers([res EXCEPT ![i].created_at = u.created_at,
                                            ![i].seen_at = u.seen_at,
                                            ![i].games = u.games,
                                            ![i].enabled = ~u.disabled],
                                i + 1, n, Without(map, res[i].id))
         ELSE ApplyApiUsers(res, i + 1, n, map)

IsEnabled(m) == m.enabled

\* A variant that drops the closed accounts whatever the filter, for
\* comparison.
RetainEnabledAlways(hide_closed, res) == SelectSeq(res, IsEnabled)

\* `if hide_closed { results.retain(|u| u.enabled); }`
RetainEnabled(hide_closed, res) ==
    IF hide_closed THEN SelectSeq(res, IsEnabled) ELSE res

Merge ==
    /\ pc = "merge"
    /\ IF DOMAIN api_users = {}
       THEN /\ pc' = "clear"
            /\ UNCHANGED results
       ELSE IF Len(results) < max
            THEN \* results[..max] is out of range: the thread panics holding the lock
                 /\ pc' = "panicked"
                 /\ UNCHANGED results
            ELSE /\ results' \in SortComposite(
                        RetainEnabled(job.hide_closed,
                                      ApplyApiUsers(results, 1, max, api_users)))
                 /\ pc' = "clear"
    /\ last' = Step("merge", job)
    /\ UNCHANGED <<users, pattern, processing, page, progress, progress_max, job,
                   thread_vars, fetch_vars, error, calls, probe, app, threads, settings, loading, locks, grid>>

(***************************************************************************)
(* "Close accounts" of App::update: the request with its Admin API key,    *)
(* the guard on the number of displayed results, the confirmation dialog,  *)
(* and the thread that calls api::close_account name by name.              *)
(***************************************************************************)
\* A variant without the cap, for comparison.
CloseAllowedAlways(n) == TRUE

\* `results.len() < MAX_CLOSE`
CloseAllowed(n) == n < MaxClose

\* `results.iter().filter(|u| u.enabled).map(|u| &u.name)`
EnabledNames(res) ==
    LET kept == SelectSeq(res, IsEnabled)
    IN  [n \in 1..Len(kept) |-> kept[n].name]

RequestClose(confirmed, api_key) ==
    /\ pc # "panicked"
    /\ ~processing
    /\ last' = Step(IF confirmed THEN "close_confirmed" ELSE "close_cancelled",
                    [NoJob EXCEPT !.kind = "close", !.shown = Len(results)])
    /\ IF CloseAllowed(Len(results)) /\ confirmed
       THEN /\ names' = EnabledNames(results)
            /\ processing' = TRUE
            /\ progress' = 0
            /\ progress_max' = Max2(Len(names'), 1)
            /\ group' = 0
            /\ job' = [NoJob EXCEPT !.kind = "close", !.shown = Len(results),
                                    !.api_key = api_key]
            /\ pc' = IF names' = <<>> THEN "clear" ELSE "close"
            /\ error' = "none"
       ELSE UNCHANGED <<names, processing, progress, progress_max, group, job,
                        pc, error>>
    /\ UNCHANGED <<users, pattern, results, page, thread_vars, max, api_users,
                   calls, probe, app, threads, settings, loading, locks, grid>>

\* api::close_account: nothing is sent without a key; otherwise the close
\* request and, when that succeeded, the request that adds the mod note.
CloseOutcomes(api_key) ==
    IF api_key THEN {"ok", "close_failed", "note_failed"} ELSE {"no_key"}

\* A variant that sends the close request a second time when it failed, for
\* comparison.
CloseRequestsRetrying(i, name, outcome) ==
    CASE outcome = "no_key" -> <<>>
      [] outcome = "close_failed" ->
            <<Request(i, name, "close", <<>>), Request(i, name, "close", <<>>)>>
      [] OTHER -> <<Request(i, name, "close", <<>>), Request(i, name, "note", <<>>)>>

CloseRequests(i, name, outcome) ==
    CASE outcome = "no_key" -> <<>>
      [] outcome = "close_failed" -> <<Request(i, name, "close", <<>>)>>
      [] OTHER -> <<Request(i, name, "close", <<>>), Request(i, name, "note", <<>>)>>

\* A variant that goes on to the next name after a failure, for comparison.
AfterCloseIgnoringFailure(ok, more) == IF more THEN "close" ELSE "clear"

\* `if let Err(error) = .. { show_error(&error); break; }`, and the end of
\* the loop
AfterClose(ok, more) == IF ok /\ more THEN "close" ELSE "clear"

CloseAccount ==
    /\ pc = "close"
    /\ \E outcome \in CloseOutcomes(job.api_key) :
          /\ calls' = calls \o CloseRequests(group + 1, names[group + 1], outcome)
          /\ progress' = IF outcome = "ok" THEN progress + 1 ELSE progress
          /\ error' = IF outcome = "ok" THEN error ELSE "close"
          /\ pc' = AfterClose(outcome = "ok", group + 1 < Len(names))
    /\ group' = group + 1
    /\ last' = Step("close_account", job)
    /\ UNCHANGED <<users, pattern, results, processing, page, progress_max, job,
                   thread_vars, names, max, api_users, probe, app, threads, settings, loading, locks, grid>>

(***************************************************************************)
(* "Load from clipboard" of App::update: the button sits in the first      *)
(* taskbar, which is not disabled while processing.                        *)
(***************************************************************************)
LoadClipboard(clip) ==
    /\ pc # "panicked"
    /\ results' = [i \in 1..Len(clip) |-> MatchFrom(clip[i])]
    /\ last' = Step("clipboard", NoJob)
    /\ UNCHANGED <<users, pattern, processing, page, progress, progress_max, pc,
                   job, thread_vars, fetch_vars, error, calls, probe, app, threads, settings, loading, locks, grid>>

Next ==
    \/ \E raw \in PatternChoices, mode \in SearchModes,
          lev \in LevChoices \cup {DefaultLevenshteinSettings},
          fetch_info \in BOOLEAN, hide_closed \in BOOLEAN :
            /\ mode # "Levenshtein" => lev = DefaultLevenshteinSettings
            /\ hide_closed => fetch_info
            /\ StartSearch(raw, mode, lev, fetch_info, hide_closed)
    \/ \E c \in 1..NumChunks : Scan(c)
    \/ \E c \in 1..NumChunks : Flush(c)
    \/ SortResults
    \/ ClearProcessing
    \/ \E hide_closed \in BOOLEAN : ClickFetchInfo(hide_closed)
    \/ FetchInit
    \/ Lookup
    \/ Merge
    \/ \E clip \in ClipboardChoices : LoadClipboard(clip)
    \/ \E confirmed \in BOOLEAN, api_key \in BOOLEAN : RequestClose(confirmed, api_key)
    \/ CloseAccount

Spec == Init /\ [][Next]_vars

(***************************************************************************)
(* The matcher on its own: one pattern, one account name and one cost      *)
(* setting are drawn, and the Levenshtein searcher do_search compiles for  *)
(* the pattern is applied to the id of the account.                        *)
(***************************************************************************)
ProbeAlphabet == {"a", "b"}
ProbePatternLen == 3

ProbePatterns == [1..ProbePatternLen -> ProbeAlphabet]
ProbeKeys == UNION {[1..n -> ProbeAlphabet] : n \in 1..MaxProbeKey}

\* The cost settings the settings window lets through: every cost at least
\* 1 and the swap cost below twice the cheaper of the two others.
ProbeSettings ==
    {[max_k |-> k, mismatch_cost |-> m, gap_cost |-> g, swap_cost |-> w] :
        k \in 1..2, m \in 1..2, g \in 1..2, w \in 1..3}

ValidSettings(lev) == lev.swap_cost < 2 * Min2(lev.mismatch_cost, lev.gap_cost)

NamedPatterns == { <<"M","a","g","n","u","s">> }
NamedKeys ==
    { <<"m","a","g","n","u","s","5">>, <<"M","a","g","n","u","s","s">>,
      <<"h","i","k","a","r","u">>, <<"m","a","n","g","u","s">>,
      <<"m","g","n","s">> }
\* The last of the named settings has max_k 0: max_k is a u32 that is read
\* back from the stored settings as it was written, and do_search takes the
\* settings as they are.
NamedSettings ==
    { [max_k |-> 1, mismatch_cost |-> 1, gap_cost |-> 1, swap_cost |-> 1],
      [max_k |-> 2, mismatch_cost |-> 2, gap_cost |-> 1, swap_cost |-> 1],
      [max_k |-> 0, mismatch_cost |-> 1, gap_cost |-> 1, swap_cost |-> 1] }

Probe(p, key, lev) ==
    [pattern |-> p, key |-> key, lev |-> lev, out |-> {}, done |-> FALSE]

Probes ==
    {Probe(p, key, lev) : p \in ProbePatterns, key \in ProbeKeys,
                          lev \in {l \in ProbeSettings : ValidSettings(l)}}
    \cup {Probe(p, key, lev) : p \in NamedPatterns, key \in NamedKeys,
                               lev \in NamedSettings}

InitMatch ==
    /\ Loaded(<<>>)
    /\ pc = "idle"
    /\ job = NoJob
    /\ pos = <<>> /\ curr = <<>> /\ flushed = <<>>
    /\ names = <<>> /\ max = 0 /\ group = 0 /\ api_users = EmptyMap
    /\ error = "none"
    /\ last = Step("loaded", NoJob)
    /\ calls = <<>>
    /\ probe \in Probes
    /\ app = FirstSession
    /\ threads = <<>>
    /\ settings = DefaultSettings
    /\ loading = NoLoading
    /\ locks = NoLocks
    /\ grid = NoGrid

ApplyMatches ==
    /\ ~probe.done
    /\ LET compiled == CompileSearcher(probe.pattern, "Levenshtein", probe.lev)
           user == Username(probe.key)
       IN  probe' = [probe EXCEPT !.out = Matches(compiled.searcher, user.id),
                                  !.done = TRUE]
    /\ last' = Step("matches", NoJob)
    /\ UNCHANGED <<users, pattern, results, processing, page, progress,
                   progress_max, pc, job, thread_vars, fetch_vars, error,
                   calls, app, threads, settings, loading, locks, grid>>

NextMatch == ApplyMatches

SpecMatch == InitMatch /\ [][NextMatch]_vars

(***************************************************************************)
(* The character-class matcher on its own: one pattern of letters and      *)
(* digits and one account name are drawn, and the searcher do_search       *)
(* compiles for the pattern in NumberReplacements mode is applied to the   *)
(* id of the account.                                                      *)
(***************************************************************************)
ExpandPatternAlphabet == {"A", "l", "5"}
ExpandKeyAlphabet == {"a", "4", "i", "1", "5"}

ExpandPatterns == [1..ProbePatternLen -> ExpandPatternAlphabet]
ExpandKeys == UNION {[1..n -> ExpandKeyAlphabet] : n \in 0..MaxProbeKey}

NamedExpandPatterns ==
    { <<"E","g","o">>, <<"i","S","u">>, <<"z","u","x">>, <<"s","i","l","l","y">>,
      <<"g","4","z">> }
NamedExpandKeys ==
    { <<"3","q","0">>, <<"e","9","o">>, <<"E","G","O">>, <<"3","g","c">>,
      <<"1","5","v">>, <<"l","s","u">>, <<"i","s","w">>,
      <<"2","v","x">>, <<"z","u","X">>, <<"2","v","y">>,
      <<"5","1","l","i","y">>, <<"x","s","i","1","1","y","x">>,
      <<"q","4","2">>, <<"9","a","z">>, <<"g","4">> }

ExpandProbes ==
    {Probe(p, key, DefaultLevenshteinSettings) :
        p \in ExpandPatterns, key \in ExpandKeys}
    \cup {Probe(p, key, DefaultLevenshteinSettings) :
              p \in NamedExpandPatterns, key \in NamedExpandKeys}

InitExpand ==
    /\ Loaded(<<>>)
    /\ pc = "idle"
    /\ job = NoJob
    /\ pos = <<>> /\ curr = <<>> /\ flushed = <<>>
    /\ names = <<>> /\ max = 0 /\ group = 0 /\ api_users = EmptyMap
    /\ error = "none"
    /\ last = Step("loaded", NoJob)
    /\ calls = <<>>
    /\ probe \in ExpandProbes
    /\ app = FirstSession
    /\ threads = <<>>
    /\ settings = DefaultSettings
    /\ loading = NoLoading
    /\ locks = NoLocks
    /\ grid = NoGrid

ApplyExpanded ==
    /\ ~probe.done
    /\ LET compiled == CompileSearcher(probe.pattern, "NumberReplacements", probe.lev)
           user == Username(probe.key)
       IN  /\ compiled.ok
           /\ probe' = [probe EXCEPT !.out = Matches(compiled.searcher, user.id),
                                     !.done = TRUE]
    /\ last' = Step("expanded", NoJob)
    /\ UNCHANGED <<users, pattern, results, processing, page, progress,
                   progress_max, pc, job, thread_vars, fetch_vars, error,
                   calls, app, threads, settings, loading, locks, grid>>

NextExpand == ApplyExpanded

SpecExpand == InitExpand /\ [][NextExpand]_vars

(***************************************************************************)
(* Replacing the session: "Load file" of App::update, which is enabled     *)
(* whatever the processing flag, puts App.state into Loading; when the     *)
(* loader is done, State::loaded builds a LoadedState of new cells.  A     *)
(* thread spawned before keeps its clone of the old LoadedState and goes   *)
(* on working on it.                                                       *)
(***************************************************************************)
FreshCorpora == {corpus \in Corpora : Len(corpus) <= 1}

\* State::loaded(users) as a record
LoadedSession(corpus) ==
    [users |-> corpus, results |-> <<>>, processing |-> FALSE,
     progress |-> 0, progress_max |-> 1]

\* The session App.state holds
ShownSession ==
    IF app.s = 1
    THEN [users |-> users, results |-> results, processing |-> processing,
          progress |-> progress, progress_max |-> progress_max]
    ELSE app.fresh

\* `if do_load_file { self.load_file(); return; }`, then load_plain:
\* `self.state = State::Loading(s.clone())`
LoadFile ==
    /\ pc # "panicked"
    /\ app.state = "Loaded"
    /\ app' = [app EXCEPT !.state = "Loading"]
    /\ last' = Step("load_file", job)
    /\ UNCHANGED <<users, pattern, results, processing, page, progress,
                   progress_max, pc, job, thread_vars, fetch_vars, error,
                   calls, probe, threads, settings, loading, locks, grid>>

\* A variant in which the loaded state takes over the cells of the session
\* held before, for comparison.
NewSessionShared(held) == held

\* `Arc::new(..)` and `Default::default()` of State::loaded: cells of its own
NewSession(held) == 2

\* `Some(Ok(data)) => self.state = State::loaded(data)`
FinishLoad(corpus) ==
    /\ app.state = "Loading"
    /\ app' = [state |-> "Loaded", s |-> NewSession(app.s),
               fresh |-> LoadedSession(corpus), replaced |-> TRUE]
    /\ last' = Step("loaded", job)
    /\ UNCHANGED <<users, pattern, results, processing, page, progress,
                   progress_max, pc, job, thread_vars, fetch_vars, error,
                   calls, probe, threads, settings, loading, locks, grid>>

InitReload ==
    /\ \E corpus \in Corpora : Len(corpus) >= 2 /\ Loaded(corpus)
    /\ pc = "idle"
    /\ job = NoJob
    /\ pos = <<>> /\ curr = <<>> /\ flushed = <<>>
    /\ names = <<>> /\ max = 0 /\ group = 0 /\ api_users = EmptyMap
    /\ error = "none"
    /\ last = Step("loaded", NoJob)
    /\ calls = <<>>
    /\ probe = NoProbe
    /\ app = FirstSession
    /\ threads = <<>>
    /\ settings = DefaultSettings
    /\ loading = NoLoading
    /\ locks = NoLocks
    /\ grid = NoGrid

NextReload ==
    \/ \E mode \in SearchModes, fetch_info \in BOOLEAN :
          /\ app.state = "Loaded" /\ app.s = 1
          /\ StartSearch(<<"M","a","g">>, mode, DefaultLevenshteinSettings,
                         fetch_info, FALSE)
    \/ \E c \in 1..NumChunks : Scan(c)
    \/ \E c \in 1..NumChunks : Flush(c)
    \/ SortResults
    \/ ClearProcessing
    \/ FetchInit
    \/ Lookup
    \/ Merge
    \/ LoadFile
    \/ \E corpus \in FreshCorpora : FinishLoad(corpus)

SpecReload == InitReload /\ [][NextReload]_vars

(***************************************************************************)
(* Properties                                                              *)
(***************************************************************************)
SearchDone == last.kind = "done" /\ last.job.kind = "search"
EnrichmentDone ==
    last.kind = "done" /\ (last.job.kind = "fetch" \/ last.job.fetch_info)

InResults(user) ==
    \E n \in 1..Len(results) : results[n].id = user.id /\ results[n].name = user.name

\* C1: when a Plain search for a pattern of length >= 3 has completed, an
\* account of the corpus is in the results if and only if its lower-cased
\* name contains the lower-cased pattern.
PlainResultsAreTheContainingAccounts ==
    (SearchDone /\ last.job.mode = "Plain" /\ Len(pattern) >= 3) =>
        \A n \in 1..Len(users) :
            InResults(users[n]) <=>
                Contains(ToAsciiLowercase(users[n].name), ToAsciiLowercase(pattern))

(***************************************************************************)
(* The weighted edit distance between two whole strings, by recursion on   *)
(* their last characters: a substitution, a gap on either side, or a swap  *)
(* of two adjacent characters.                                             *)
(***************************************************************************)
Front(s) == SubSeq(s, 1, Len(s) - 1)

RECURSIVE WeightedDistance(_, _, _)
WeightedDistance(a, b, lev) ==
    IF a = <<>> THEN Len(b) * lev.gap_cost
    ELSE IF b = <<>> THEN Len(a) * lev.gap_cost
    ELSE LET sub == WeightedDistance(Front(a), Front(b), lev)
                    + (IF a[Len(a)] = b[Len(b)] THEN 0 ELSE lev.mismatch_cost)
             del == WeightedDistance(Front(a), b, lev) + lev.gap_cost
             ins == WeightedDistance(a, Front(b), lev) + lev.gap_cost
             edit == Min2(sub, Min2(del, ins))
         IN  IF /\ Len(a) >= 2 /\ Len(b) >= 2
                /\ a[Len(a)] = b[Len(b) - 1] /\ a[Len(a) - 1] = b[Len(b)]
             THEN Min2(edit, WeightedDistance(Front(Front(a)), Front(Front(b)), lev)
                             + lev.swap_cost)
             ELSE edit

\* The contiguous substrings of s, the empty one included.
Substrings(s) ==
    {SubSeq(s, from, to) : from \in 1..(Len(s) + 1), to \in 0..Len(s)}

SubstringDistance(p, key, lev) ==
    LET ds == {WeightedDistance(p, sub, lev) : sub \in Substrings(key)}
    IN  CHOOSE d \in ds : \A e \in ds : d <= e

ProbePattern == ToAsciiLowercase(probe.pattern)
ProbeKey == ToAsciiLowercase(probe.key)

\* C2 as stated: an account matches an approximate search if and only if
\* the weighted edit distance between the lower-cased pattern and its whole
\* key is at most max_distance, and the score is that distance.
ScoreIsWholeKeyDistance ==
    probe.done =>
        LET d == WeightedDistance(ProbePattern, ProbeKey, probe.lev)
        IN  probe.out = IF d <= probe.lev.max_k THEN {d} ELSE {}

\* C2, amended: an account matches an approximate search if and only if its
\* key is at least as long as the pattern and the least weighted edit
\* distance between the lower-cased pattern and a contiguous substring of
\* the key is at most max_distance; the score is that least distance.
ScoreIsBestSubstringDistance ==
    probe.done =>
        LET d == SubstringDistance(ProbePattern, ProbeKey, probe.lev)
        IN  probe.out = IF Len(ProbeKey) >= Len(ProbePattern) /\ d <= probe.lev.max_k
                        THEN {d} ELSE {}

\* "magnus" against "magnus5" with max_distance 1 and unit costs: score 0
MagnusFoundInsideMagnus5 ==
    /\ probe.done
    /\ probe.pattern = <<"M","a","g","n","u","s">>
    /\ probe.key = <<"m","a","g","n","u","s","5">>
    /\ probe.lev = [max_k |-> 1, mismatch_cost |-> 1, gap_cost |-> 1, swap_cost |-> 1]
    /\ probe.out = {0}

ResultSet == {<<results[n].id, results[n].name, results[n].k>> : n \in 1..Len(results)}

MatchSet(corpus, searcher) ==
    UNION {{<<corpus[n].id, corpus[n].name, k>> : k \in Matches(searcher, corpus[n].id)}
            : n \in 1..Len(corpus)}

\* C3: when a search completes, the set of matches in the results is
\* determined by the corpus and the request alone -- the accounts the
\* searcher accepts, each with its score -- whatever the interleaving of
\* the chunk workers.
ResultSetIsDetermined ==
    SearchDone => ResultSet = MatchSet(users, last.job.searcher)

IsRanked(res) == \A m, n \in 1..Len(res) : m < n => res[m].k <= res[n].k

\* The order of the flag and the work: processing is true from before the
\* first chunk is scanned, it is still true when every chunk has been
\* scanned and flushed and the sort is done, and once it is false no part of
\* the run is left.
ProcessingCoversTheRun ==
    /\ pc \in {"scan", "fetch", "lookup", "merge", "clear"} => processing
    /\ (pc = "clear" /\ job.kind = "search") =>
            \A c \in 1..NumChunks : pos[c] = ChunkLen(c) /\ flushed[c]
    /\ ~processing => pc = "idle" /\ pos = <<>> /\ curr = <<>> /\ flushed = <<>>
    /\ SearchDone => ~processing

\* C4: processing is set before the first chunk is scanned and cleared only
\* after every chunk has flushed and the sort has finished, so that whoever
\* reads processing = false after a search finds the complete, ranked
\* results: every account the searcher accepts (closed ones aside when they
\* are hidden), in order of score after an approximate search.
ProcessingFalseMeansCompleteRanked ==
    /\ ProcessingCoversTheRun
    /\ (SearchDone /\ ~last.job.hide_closed) =>
            MatchSet(users, last.job.searcher) \subseteq ResultSet
    /\ (SearchDone /\ last.job.mode = "Levenshtein") => IsRanked(results)

Ceil(n, d) == (n + d - 1) \div d

RECURSIVE BatchesBegun(_)
BatchesBegun(c) ==
    IF c = 0 THEN 0 ELSE Ceil(ChunkLen(c), ProgressBatch) + BatchesBegun(c - 1)

\* C5 as stated: when a search run completes, scanned equals total.
ScannedEqualsTotalAtCompletion ==
    SearchDone => progress = progress_max

\* C5, amended: when a search run completes, scanned has not been set to
\* total.  Without automatic enrichment it is (ProgressBatch - 1) times the
\* number of progress batches the chunk workers began, total being the
\* length of the corpus; with automatic enrichment both counters were
\* restarted and scanned is the number of lookup groups answered, at most
\* FetchGroups and at most total.
ScannedCountsBatchesAtCompletion ==
    SearchDone =>
        IF last.job.fetch_info
        THEN progress <= Min2(FetchGroups, progress_max)
        ELSE /\ progress = (ProgressBatch - 1) * BatchesBegun(NumChunks)
             /\ progress_max = Len(users)

ScannedPastTotal ==
    /\ SearchDone
    /\ ~last.job.fetch_info
    /\ NumChunks >= 2
    /\ progress > progress_max

InSearchRun == processing /\ job.kind = "search"

\* C6 as stated: from the start of a search run until its processing flag
\* is cleared, scanned never decreases.
ScannedNeverDecreases ==
    [][InSearchRun => progress' >= progress]_vars

\* C6, amended: during a search run scanned never decreases except once,
\* when the automatic enrichment that follows the scan begins and sets it
\* back to 0.
ScannedDecreasesOnlyAtEnrichment ==
    [][InSearchRun => \/ progress' >= progress
                      \/ pc = "fetch" /\ progress' = 0]_vars

ScannedRestartedByEnrichment ==
    /\ InSearchRun
    /\ pc = "lookup"
    /\ group = 1
    /\ progress = 1

ShortRequest == last.kind = "search" /\ Len(pattern) < 3

NothingScheduled ==
    /\ ~processing
    /\ pc = "idle"
    /\ pos = <<>> /\ curr = <<>> /\ flushed = <<>>

\* C7 as stated: for every corpus and mode, a search request with a pattern
\* shorter than 3 leaves the results empty and schedules nothing.
ShortPatternEmptiesResults ==
    ShortRequest => results = <<>> /\ NothingScheduled

\* C7, amended: for every non-empty corpus and every mode, a search request
\* with a pattern shorter than 3 leaves the results empty and schedules
\* nothing; with no corpus loaded nothing is scheduled either, and the
\* results are left as they were.
ShortPatternEmptiesResultsOfACorpus ==
    ShortRequest => /\ NothingScheduled
                    /\ users # <<>> => results = <<>>

ShortRequestOnACorpus ==
    /\ ShortRequest
    /\ users # <<>>
    /\ results = <<>>
    /\ error = "none"

\* The pattern of the request does not compile in the mode of the request.
CompileFails(raw, mode) ==
    \/ mode = "RegEx" /\ ~RegexNew(ToAsciiLowercase(raw)).ok
    \/ mode = "NumberReplacements"
          /\ ~RegexNew(ExpandClasses(ToAsciiLowercase(raw))).ok

\* C8: when the pattern of a search request on a loaded corpus is at least
\* 3 long and does not compile as a regular expression, the error is
\* shown and no search starts: nothing is scheduled, processing stays false
\* and the progress counters keep their values.
CompileErrorStartsNothing ==
    [][(/\ last'.kind = "search"
        /\ users # <<>>
        /\ Len(pattern') >= 3
        /\ CompileFails(pattern', last'.job.mode))
       => (/\ error' = "regex"
           /\ ~processing /\ ~processing'
           /\ pc' = "idle" /\ pos' = <<>>
           /\ progress' = progress /\ progress_max' = progress_max)]_vars

CompileErrorShown ==
    /\ last.kind = "search"
    /\ last.job.mode = "NumberReplacements"
    /\ error = "regex"
    /\ progress > 0
    /\ ~processing

\* The order C9 describes, on whole seconds as DateTime::timestamp gives
\* them; an account without a time counts as the oldest.
SecondsOrOldest(opt) == IF opt = {} THEN 0 ELSE (CHOOSE t \in opt : TRUE) \div 1000

RanksBefore(a, b) ==
    \/ a.k < b.k
    \/ /\ a.k = b.k
       /\ \/ SecondsOrOldest(a.seen_at) > SecondsOrOldest(b.seen_at)
          \/ /\ SecondsOrOldest(a.seen_at) = SecondsOrOldest(b.seen_at)
             /\ \/ SecondsOrOldest(a.created_at) > SecondsOrOldest(b.created_at)
                \/ /\ SecondsOrOldest(a.created_at) = SecondsOrOldest(b.created_at)
                   /\ a.games > b.games

ApproximateResultsRanked ==
    (SearchDone /\ last.job.mode = "Levenshtein") => IsRanked(results)

ApproximateResultsOfTwoScores ==
    /\ SearchDone
    /\ last.job.mode = "Levenshtein"
    /\ \E m, n \in 1..Len(results) : results[m].k < results[n].k

CountId(res, id) == Cardinality({n \in 1..Len(res) : res[n].id = id})

\* The two collections hold the same ids, each as many times.
SameIds(a, b) ==
    /\ Len(a) = Len(b)
    /\ \A n \in 1..Len(a) : CountId(a, a[n].id) = CountId(b, a[n].id)

\* The matches of the corpus in the order of the corpus.
RECURSIVE CorpusMatches(_, _)
CorpusMatches(corpus, searcher) ==
    IF corpus = <<>> THEN <<>>
    ELSE LET found == Matches(searcher, Head(corpus).id)
         IN  (IF found = {} THEN <<>>
              ELSE <<MatchNew(Head(corpus), CHOOSE k \in found : TRUE)>>)
             \o CorpusMatches(Tail(corpus), searcher)

\* A stable sort by score: the entries of score 0 in their order, then those
\* of score 1, and so on up to score `top`.
RECURSIVE StableByScore(_, _)
StableByScore(res, top) ==
    IF top < 0 THEN <<>>
    ELSE StableByScore(res, top - 1) \o SelectSeq(res, LAMBDA m : m.k = top)

UndisturbedApproximateRun ==
    /\ SearchDone
    /\ last.job.mode = "Levenshtein"
    /\ ~last.job.fetch_info
    /\ SameIds(results, CorpusMatches(users, last.job.searcher))

CloseCalled == \E n \in 1..Len(calls) : calls[n].kind \in {"close", "note"}

\* C12: the external close action is never invoked by a run that was
\* requested while more than MaxClose matches were displayed.
NoCloseCallAboveTheCap ==
    (job.kind = "close" /\ CloseCalled) => job.shown <= MaxClose

ConfirmedRequestAboveTheCapRefused ==
    /\ last.kind = "close_confirmed"
    /\ last.job.shown > MaxClose
    /\ ~processing
    /\ ~CloseCalled

\* C13 as stated: a confirmed close request over n displayed matches is
\* carried out for every n from 1 up to and including the cap.
ConfirmedCloseUpToTheCapIsCarriedOut ==
    (last.kind = "close_confirmed" /\ last.job.shown \in 1..MaxClose) =>
        /\ processing
        /\ job.kind = "close"
        /\ names = EnabledNames(results)

\* The requests of n names closed in order: for each, the close request and
\* then the note request.
RECURSIVE ClosedPairs(_)
ClosedPairs(n) ==
    IF n = 0 THEN <<>>
    ELSE ClosedPairs(n - 1) \o <<Request(n, names[n], "close", <<>>),
                                 Request(n, names[n], "note", <<>>)>>

\* What a failing close action of the n-th name may have sent.
FailedRequests(n) ==
    {<<>>,
     <<Request(n, names[n], "close", <<>>)>>,
     <<Request(n, names[n], "close", <<>>), Request(n, names[n], "note", <<>>)>>}

\* C14: a close run takes the names in order, stops at the first failing
\* action without attempting a later name, leaves the counter at the number
\* of actions completed before it, takes nothing back, and then clears the
\* processing flag.
CloseRunStopsAtFirstFailure ==
    /\ job.kind = "close" =>
          /\ processing
          /\ progress <= Len(names)
          /\ progress = group - (IF error = "none" THEN 0 ELSE 1)
          /\ IF error = "none"
             THEN /\ calls = ClosedPairs(progress)
                  /\ pc = (IF progress < Len(names) THEN "close" ELSE "clear")
             ELSE /\ progress < Len(names)
                  /\ \E tail \in FailedRequests(progress + 1) :
                        calls = ClosedPairs(progress) \o tail
                  /\ pc = "clear"
    /\ (last.kind = "done" /\ last.job.kind = "close") =>
          /\ ~processing
          /\ progress <= progress_max
          /\ error = "none" => progress = progress_max \/ progress_max = 1

CloseRunStoppedAfterOneSuccess ==
    /\ job.kind = "close"
    /\ error = "close"
    /\ progress = 1
    /\ Len(names) = 3
    /\ pc = "clear"

RequestsOf(i, kind) ==
    Cardinality({n \in 1..Len(calls) : calls[n].i = i /\ calls[n].kind = kind})

\* C15 as stated: during a close run at most one external call is made for
\* each name.
AtMostOneCallPerName ==
    job.kind = "close" =>
        \A i \in 1..Len(names) :
            Cardinality({n \in 1..Len(calls) : calls[n].name = names[i]}) <= 1

\* C15, amended: for each entry of the copied names a close run sends at most
\* one close request and at most one note request, the note request only
\* after the close request of the same entry, and nothing else.
AtMostOneCloseAndOneNotePerEntry ==
    job.kind = "close" =>
        /\ \A n \in 1..Len(calls) :
              /\ calls[n].kind \in {"close", "note"}
              /\ calls[n].i \in 1..Len(names)
              /\ calls[n].name = names[calls[n].i]
              /\ calls[n].kind = "note" =>
                    /\ n > 1
                    /\ calls[n - 1] = Request(calls[n].i, calls[n].name, "close", <<>>)
        /\ \A i \in 1..Len(names) :
              /\ RequestsOf(i, "close") <= 1
              /\ RequestsOf(i, "note") <= 1

CloseAndNoteSentForOneName ==
    /\ job.kind = "close"
    /\ \E i \in 1..Len(names) :
          RequestsOf(i, "close") = 1 /\ RequestsOf(i, "note") = 1

LookupCap == FetchGroups * FetchGroupSize

CarriesAnswer(m, u) ==
    /\ m.created_at = u.created_at
    /\ m.seen_at = u.seen_at
    /\ m.games = u.games
    /\ m.enabled = ~u.disabled

HasEntry(res, m) == \E n \in 1..Len(res) : res[n] = m

MergeAfterFailedBatch ==
    pc = "merge" /\ error = "fetch" /\ last'.kind = "merge"

\* C17: when a lookup batch failed, no later batch is requested, what the
\* batches before it answered is applied to the matches it is about, every
\* other match keeps its fields, and the processing flag is cleared.
FailedBatchKeepsEarlierAnswers ==
    [][MergeAfterFailedBatch =>
          /\ Len(calls) = group + 1
          /\ pc' = "clear"
          /\ \A n \in 1..Len(results') :
                IF results'[n].id \in DOMAIN api_users
                THEN CarriesAnswer(results'[n], api_users[results'[n].id])
                ELSE HasEntry(results, results'[n])
          /\ \A n \in 1..Len(results) :
                (results[n].id \notin DOMAIN api_users)
                    => HasEntry(results', results[n])]_vars

\* C18: with the hide-closed filter off, the sort of an approximate run and
\* the merge with its composite sort leave the multiset of the ids of the
\* results as it was: no match is added and none is removed.
RankingKeepsTheMatches ==
    [][(last'.kind \in {"sort", "merge"} /\ ~job.hide_closed)
          => SameIds(results, results')]_vars

ClosedAccountKeptByTheMerge ==
    /\ last.kind = "merge"
    /\ ~last.job.hide_closed
    /\ pc = "clear"
    /\ Len(results) >= 2
    /\ \E n \in 1..Len(results) : ~results[n].enabled /\ results[n].created_at # {}

\* C19 as stated: in RegEx mode the expression compiled and run against the
\* lower-cased keys is the pattern text exactly as entered, with no case
\* folding.
RegExPatternCompiledAsEntered ==
    (pc = "scan" /\ job.mode = "RegEx") =>
        /\ job.searcher.regex = RegexNew(pattern)
        /\ \A n \in 1..Len(users) :
              (Matches(job.searcher, users[n].id) # {})
                  = RegexIsMatch(RegexNew(pattern), users[n].id)

\* The characters a pattern character stands for.
ClassOf(c) ==
    CASE c = "a" -> {"a", "4"}
      [] c = "e" -> {"e", "3"}
      [] c = "g" -> {"g", "q", "9"}
      [] c \in {"i", "l"} -> {"i", "l", "1"}
      [] c = "o" -> {"o", "0"}
      [] c = "s" -> {"s", "5"}
      [] c = "u" -> {"u", "v"}
      [] c = "z" -> {"z", "2"}
      [] OTHER -> {c}

\* The text one pattern character is rewritten to.
ClassText(c) ==
    CASE c = "a" -> <<"[","a","4","]">>
      [] c = "e" -> <<"[","e","3","]">>
      [] c = "g" -> <<"[","g","q","9","]">>
      [] c \in {"i", "l"} -> <<"[","i","l","1","]">>
      [] c = "o" -> <<"[","o","0","]">>
      [] c = "s" -> <<"[","s","5","]">>
      [] c = "u" -> <<"[","u","v","]">>
      [] c = "z" -> <<"[","z","2","]">>
      [] OTHER -> <<c>>

RECURSIVE EachExpandedOnce(_)
EachExpandedOnce(p) ==
    IF p = <<>> THEN <<>> ELSE ClassText(Head(p)) \o EachExpandedOnce(Tail(p))

AcceptedByClasses(p, key) ==
    \E i \in 0..(Len(key) - Len(p)) :
        \A j \in 1..Len(p) : key[i + j] \in ClassOf(p[j])

ShortSearchChangesNothing ==
    [][(last'.kind = "search" /\ Len(pattern') < 3)
          => /\ results' = results
             /\ page' = page
             /\ progress' = progress
             /\ progress_max' = progress_max
             /\ processing' = processing]_vars

AtLeastOne(n) == IF n >= 1 THEN n ELSE 1

\* C22 as stated: from the start of a search run until its processing flag
\* becomes false the total is max(1, corpus length).
TotalIsCorpusLengthThroughoutTheRun ==
    (processing /\ job.kind = "search") => progress_max = AtLeastOne(Len(users))

\* C22, amended: during the scan and the sort of a search run, and for the
\* whole run when the automatic enrichment is off, the total is
\* max(1, corpus length); the automatic enrichment of the same run then sets
\* it to max(1, number of names it looks up), before the processing flag
\* becomes false.
TotalFixedWithinEachPhase ==
    job.kind = "search" =>
        /\ processing
        /\ IF pc \in {"scan", "fetch"} \/ ~job.fetch_info
           THEN progress_max = AtLeastOne(Len(users))
           ELSE progress_max = AtLeastOne(max) /\ max = Len(names)

TotalChangedByTheEnrichmentOfTheRun ==
    /\ job.kind = "search"
    /\ processing
    /\ pc = "lookup"
    /\ progress_max # Len(users)
    /\ progress_max = max

\* C23: when a new corpus is loaded while a search is in flight, the run
\* goes on, but as long as nothing is requested of the new session its
\* results stay empty and its counters and processing flag stay as
\* State::loaded set them.
ReplacedSessionUntouchedByOldRun ==
    (app.replaced /\ app.state = "Loaded") =>
        /\ ShownSession.results = <<>>
        /\ ShownSession.progress = 0
        /\ ShownSession.progress_max = 1
        /\ ~ShownSession.processing

OldRunFinishedAfterReplacement ==
    /\ app.replaced
    /\ app.state = "Loaded"
    /\ last.kind = "done"
    /\ last.job.kind = "search"
    /\ results # <<>>
    /\ progress > 0
    /\ ShownSession.results = <<>>

\* C24: a Levenshtein request whose max_distance is below 1 is rejected
\* when it is compiled, so that no account is ever scanned with it and
\* nothing is matched under it.
ZeroDistanceRejectedAtCompile ==
    (probe.done /\ probe.lev.max_k < 1) =>
        /\ ~CompileSearcher(probe.pattern, "Levenshtein", probe.lev).ok
        /\ probe.out = {}

\* C25: the rejection of short keys loses no match: whenever the key is
\* shorter than the pattern, which the Levenshtein searcher answers with no
\* match without running the distance search, and the gap cost is at least
\* 1, the weighted edit distance between the pattern and the key is greater
\* than max_distance.
ShortKeysAreOutOfReach ==
    (/\ probe.done
     /\ Len(ProbeKey) < Len(ProbePattern)
     /\ probe.lev.gap_cost >= 1
     /\ probe.out = {}) =>
        WeightedDistance(ProbePattern, ProbeKey, probe.lev) > probe.lev.max_k

\* The number of accounts the chunk workers 1..c have scanned so far.
RECURSIVE ScannedSoFar(_)
ScannedSoFar(c) == IF c = 0 THEN 0 ELSE pos[c] + ScannedSoFar(c - 1)

\* C26: during the scan of a search the progress counter, to which every
\* worker adds one whole batch for each batch of accounts it has scanned,
\* never exceeds the number of accounts scanned so far.
AddedNeverExceedsScanned ==
    (pc = "scan" /\ job.kind = "search") => progress <= ScannedSoFar(NumChunks)

\* C27: in every state of a loaded session the progress counter is at most
\* progress_max, so the fraction the progress bar is given never exceeds 1.
ProgressWithinTotal == progress <= progress_max

\* The steps taken by the thread of a background job.
BackgroundSteps ==
    {"scan", "flush", "sort", "fetch_init", "lookup", "merge", "close_account",
     "done"}

\* C28: while processing is true the results are changed by the steps of
\* the running background job only; no request made in the window clears,
\* replaces or shrinks them before processing is false again.
ResultsChangedByTheJobOnly ==
    [][(processing /\ results' # results) => last'.kind \in BackgroundSteps]_vars

\* C29: from the snapshot of the names of the first max results to the
\* merge of the responses the results keep at least max entries, so the
\* merge never reaches past their end and the enrichment thread does not
\* panic.
SnapshotStaysWithinResults ==
    /\ pc \in {"lookup", "merge"} => Len(results) >= max
    /\ pc # "panicked"

(***************************************************************************)
(* One frame of App::update taken as a whole: the gate of the second       *)
(* taskbar is read once, the requests of the frame are collected, and the  *)
(* handlers run one after the other.  The background threads are followed  *)
(* from their start to their end only: what a thread does to the results   *)
(* in between is the subject of Spec and is not repeated here.             *)
(***************************************************************************)
MaxThreads == 3

\* `ui.add_enabled_ui(!s.processing.load(SeqCst), ...)`: the widgets that
\* set do_search, do_fetch_info and do_close respond only when the flag was
\* false at the time the taskbar was laid out.
Gate == ~processing

\* The requests a frame can collect.  The input of a frame is a list of
\* events: a key press and a pointer click can arrive together, which sets
\* two of the three requests (Enter and a click on another button), never
\* all three.
FrameRequests ==
    {r \in [do_search : BOOLEAN, do_fetch_info : BOOLEAN, do_close : BOOLEAN] :
        /\ r.do_search \/ r.do_fetch_info \/ r.do_close
        /\ ~(r.do_search /\ r.do_fetch_info /\ r.do_close)}

Frame ==
    [results |-> results, page |-> page, processing |-> processing,
     progress |-> progress, progress_max |-> progress_max,
     threads |-> threads, error |-> error]

\* `if do_search { ... }` with App::do_search
HandleSearch(f, raw, mode, lev) ==
    IF users = <<>> THEN [f EXCEPT !.error = "no user list"]
    ELSE LET cleared == [f EXCEPT !.page = 0, !.results = <<>>]
         IN  IF PatternTooShort(raw) THEN cleared
             ELSE IF ~CompileSearcher(raw, mode, lev).ok
                  THEN [cleared EXCEPT !.error = "regex"]
                  ELSE [cleared EXCEPT !.processing = TRUE,
                                       !.progress = 0,
                                       !.progress_max = Max2(Len(users), 1),
                                       !.threads = Append(@, "search")]

\* `if do_fetch_info { App::do_fetch_info(...) }`
HandleFetchInfo(f) ==
    [f EXCEPT !.processing = TRUE, !.threads = Append(@, "fetch")]

\* `if do_close && results.len() < MAX_CLOSE && MessageDialog...show() { ... }`
HandleClose(f, confirmed) ==
    IF CloseAllowed(Len(f.results)) /\ confirmed
    THEN [f EXCEPT !.processing = TRUE,
                   !.progress = 0,
                   !.progress_max = Max2(Len(EnabledNames(f.results)), 1),
                   !.threads = Append(@, "close")]
    ELSE f

Update(r, raw, mode, confirmed) ==
    /\ Gate
    /\ LET searched == IF r.do_search
                       THEN HandleSearch(Frame, raw, mode, DefaultLevenshteinSettings)
                       ELSE Frame
           fetched == IF r.do_fetch_info THEN HandleFetchInfo(searched) ELSE searched
           closed == IF r.do_close THEN HandleClose(fetched, confirmed) ELSE fetched
       IN  /\ Len(closed.threads) <= MaxThreads
           /\ results' = closed.results
           /\ page' = closed.page
           /\ processing' = closed.processing
           /\ progress' = closed.progress
           /\ progress_max' = closed.progress_max
           /\ threads' = closed.threads
           /\ error' = closed.error
    /\ pattern' = raw
    /\ last' = Step("update", NoJob)
    /\ UNCHANGED <<users, pc, job, thread_vars, fetch_vars, calls, probe, app, settings, loading, locks, grid>>

\* The last statement of each of the three threads: `processing.store(false)`
ThreadEnds(i) ==
    /\ i \in 1..Len(threads)
    /\ processing' = FALSE
    /\ threads' = SubSeq(threads, 1, i - 1) \o SubSeq(threads, i + 1, Len(threads))
    /\ last' = Step("thread_end", [NoJob EXCEPT !.kind = threads[i]])
    /\ UNCHANGED <<users, pattern, results, page, progress, progress_max, pc,
                   job, thread_vars, fetch_vars, error, calls, probe, app, settings, loading, locks, grid>>

InitFrame ==
    /\ \E corpus \in Corpora : Loaded(corpus)
    /\ pc = "idle"
    /\ job = NoJob
    /\ pos = <<>> /\ curr = <<>> /\ flushed = <<>>
    /\ names = <<>> /\ max = 0 /\ group = 0 /\ api_users = EmptyMap
    /\ error = "none"
    /\ last = Step("loaded", NoJob)
    /\ calls = <<>>
    /\ probe = NoProbe
    /\ app = FirstSession
    /\ threads = <<>>
    /\ settings = DefaultSettings
    /\ loading = NoLoading
    /\ locks = NoLocks
    /\ grid = NoGrid

NextFrame ==
    \/ \E r \in FrameRequests, raw \in PatternChoices, mode \in SearchModes,
          confirmed \in BOOLEAN : Update(r, raw, mode, confirmed)
    \/ \E i \in 1..MaxThreads : ThreadEnds(i)
    \/ \E clip \in ClipboardChoices : LoadClipboard(clip)

SpecFrame == InitFrame /\ [][NextFrame]_vars

\* C30: at most one background job runs on a session at a time: a job is
\* started only while processing is false, so processing is never set to
\* false while a job of the session is still running.
OneJobAtATime ==
    /\ Len(threads) <= 1
    /\ threads # <<>> => processing

(***************************************************************************)
(* The scheduling of the background thread: a thread that was spawned      *)
(* keeps running, and every request it sends returns.  The requests made   *)
(* in the window are not forced.  The threads followed here are those of   *)
(* an enrichment of the results shown and of a bulk close.                 *)
(***************************************************************************)
ThreadStep ==
    \/ FetchInit
    \/ Lookup
    \/ Merge
    \/ CloseAccount
    \/ ClearProcessing

NextFair ==
    \/ \E hide_closed \in BOOLEAN : ClickFetchInfo(hide_closed)
    \/ \E confirmed \in BOOLEAN, api_key \in BOOLEAN : RequestClose(confirmed, api_key)
    \/ \E clip \in ClipboardChoices : LoadClipboard(clip)
    \/ ThreadStep

SpecFair == Init /\ [][NextFair]_vars /\ WF_vars(ThreadStep)

\* C31: every job that sets processing clears it again: under fair
\* scheduling of the thread, from every state in which processing is true a
\* state in which it is false is reached, whatever is requested in the
\* window in the meantime.
ProcessingEventuallyCleared == processing ~> ~processing

(***************************************************************************)
(* Searches on their own: the requests made in the window while a run is   *)
(* under way are left out, so that the results are touched by the run      *)
(* alone.                                                                  *)
(***************************************************************************)
NextSearch ==
    \/ \E raw \in PatternChoices, mode \in SearchModes,
          lev \in LevChoices \cup {DefaultLevenshteinSettings},
          fetch_info \in BOOLEAN, hide_closed \in BOOLEAN :
            /\ mode # "Levenshtein" => lev = DefaultLevenshteinSettings
            /\ hide_closed => fetch_info
            /\ StartSearch(raw, mode, lev, fetch_info, hide_closed)
    \/ \E c \in 1..NumChunks : Scan(c)
    \/ \E c \in 1..NumChunks : Flush(c)
    \/ SortResults
    \/ ClearProcessing
    \/ FetchInit
    \/ Lookup
    \/ Merge

SpecSearch == Init /\ [][NextSearch]_vars

\* The search proper (scan and ranking) of a run has just completed.
Ranked == last.kind = "sort" /\ last.job.kind = "search"

RepeatedNames == << <<"M","a","g">>, <<"m","a","g">>, <<"h","i","k">> >>

RepeatedCorpora ==
    {[i \in 1..n |-> Username(RepeatedNames[i])] : n \in 2..Len(RepeatedNames)}

InitRepeated ==
    /\ \E corpus \in RepeatedCorpora : Loaded(corpus)
    /\ pc = "idle"
    /\ job = NoJob
    /\ pos = <<>> /\ curr = <<>> /\ flushed = <<>>
    /\ names = <<>> /\ max = 0 /\ group = 0 /\ api_users = EmptyMap
    /\ error = "none"
    /\ last = Step("loaded", NoJob)
    /\ calls = <<>>
    /\ probe = NoProbe
    /\ app = FirstSession
    /\ threads = <<>>
    /\ settings = DefaultSettings
    /\ loading = NoLoading
    /\ locks = NoLocks
    /\ grid = NoGrid

NextRepeated ==
    \/ NextSearch
    \/ \E hide_closed \in BOOLEAN : ClickFetchInfo(hide_closed)

SpecRepeated == InitRepeated /\ [][NextRepeated]_vars

\* The match carries what the lookup returned for the account.
Carries(m, u) ==
    /\ m.created_at = u.created_at
    /\ m.seen_at = u.seen_at
    /\ m.games = u.games
    /\ m.enabled = ~u.disabled

\* C33: after an enrichment pass in which every batch succeeded, every
\* match among the positions the pass covers whose id the lookup returned
\* carries the returned creation time, last-seen time, number of games and
\* enabled flag, also when several of these matches have the same id.
\* (Stated for passes without the hide-closed filter that cover all the
\* results, where the positions are those of all the results.)
ReturnedMatchesCarryTheAnswer ==
    (/\ last.kind = "merge" /\ pc = "clear"
     /\ error = "none"
     /\ ~job.hide_closed
     /\ Len(results) <= max) =>
        \A m \in 1..Len(results) :
            results[m].id \in DOMAIN api_users =>
                Carries(results[m], api_users[results[m].id])

(***************************************************************************)
(* The settings bar of App::update in Levenshtein mode.  A DragValue with  *)
(* clamp_range clamps incoming and outgoing values to the range: the value *)
(* it is given is brought into the range whenever the widget is shown, and *)
(* so is a value the operator drags or types.  The ranges 1..=10 are       *)
(* scaled down to 1..MaxCost for the costs and to 1..MaxDistance, which    *)
(* holds the default of 3, for max_k.                                      *)
(***************************************************************************)
MaxCost == 2
MaxDistance == 3

Clamp(v, lo, hi) == IF v < lo THEN lo ELSE IF v > hi THEN hi ELSE v

\* A variant that clamps what the operator enters but shows a stored value
\* as it is, for comparison.
DragValueOutgoingOnly(value, entered, lo, hi) ==
    IF entered = {} THEN value ELSE Clamp(CHOOSE v \in entered : TRUE, lo, hi)

DragValue(value, entered, lo, hi) ==
    Clamp(IF entered = {} THEN value ELSE CHOOSE v \in entered : TRUE, lo, hi)

\* What the operator does to the bar in one frame: nothing, or a value
\* entered into one of the four fields (values outside the range included).
CostFields == {"max_k", "mismatch_cost", "gap_cost", "swap_cost"}
NoEdit == [field |-> "none", value |-> 0]
Edits ==
    {NoEdit} \cup [field : CostFields, value : 0..(2 * MaxCost)]

Entered(edit, field) == IF edit.field = field THEN {edit.value} ELSE {}

\* The four widgets in the order of the code, the range of the swap cost
\* computed from the two costs shown before it.
ShowCosts(lev, edit) ==
    LET k == DragValue(lev.max_k, Entered(edit, "max_k"), 1, MaxDistance)
        m == DragValue(lev.mismatch_cost, Entered(edit, "mismatch_cost"), 1, MaxCost)
        g == DragValue(lev.gap_cost, Entered(edit, "gap_cost"), 1, MaxCost)
        max_cost == Min2(m, g) * 2 - 1
        w == DragValue(lev.swap_cost, Entered(edit, "swap_cost"), 1, max_cost)
    IN  [max_k |-> k, mismatch_cost |-> m, gap_cost |-> g, swap_cost |-> w]

\* One frame: the mode radios, the cost widgets if the mode is Levenshtein,
\* and the search if one is requested and no job is running.
SettingsFrame(mode, edit, do_search) ==
    /\ pc # "panicked"
    /\ mode # "Levenshtein" => edit = NoEdit
    /\ LET lev == IF mode = "Levenshtein"
                  THEN ShowCosts(settings.levenshtein_settings, edit)
                  ELSE settings.levenshtein_settings
           \* the swap cost was brought into a range that another field narrowed
           clamped == /\ edit.field \notin {"none", "swap_cost"}
                      /\ lev.swap_cost # settings.levenshtein_settings.swap_cost
       IN  /\ settings' = [settings EXCEPT !.search_mode = mode,
                                           !.levenshtein_settings = lev]
           /\ IF do_search /\ ~processing /\ users # <<>>
              THEN /\ pattern' = <<"M","a","g">>
                   /\ page' = 0
                   /\ results' = <<>>
                   /\ DoSearch(pattern', mode, lev, FALSE, FALSE)
                   /\ last' = Step(IF clamped THEN "search_swap_clamped" ELSE "search",
                                   [NoJob EXCEPT !.mode = mode])
              ELSE /\ last' = Step(IF clamped THEN "swap_clamped" ELSE "settings",
                                   NoJob)
                   /\ UNCHANGED <<pattern, page, results, processing, progress,
                                  progress_max, pc, job, thread_vars, error>>
    /\ UNCHANGED <<users, fetch_vars, calls, probe, app, threads, loading, locks, grid>>

InitSettings ==
    /\ \E corpus \in Corpora : Len(corpus) = 1 /\ Loaded(corpus)
    /\ pc = "idle"
    /\ job = NoJob
    /\ pos = <<>> /\ curr = <<>> /\ flushed = <<>>
    /\ names = <<>> /\ max = 0 /\ group = 0 /\ api_users = EmptyMap
    /\ error = "none"
    /\ last = Step("loaded", NoJob)
    /\ calls = <<>>
    /\ probe = NoProbe
    /\ app = FirstSession
    /\ threads = <<>>
    /\ settings = DefaultSettings
    /\ loading = NoLoading
    /\ locks = NoLocks
    /\ grid = NoGrid

NextSettings ==
    \/ \E mode \in {"Plain", "Levenshtein"}, edit \in Edits, do_search \in BOOLEAN :
          SettingsFrame(mode, edit, do_search)
    \/ \E c \in 1..NumChunks : Scan(c)
    \/ \E c \in 1..NumChunks : Flush(c)
    \/ SortResults
    \/ ClearProcessing

SpecSettings == InitSettings /\ [][NextSettings]_vars

SwapCostInRange(lev) ==
    /\ 1 <= lev.swap_cost
    /\ lev.swap_cost <= 2 * Min2(lev.mismatch_cost, lev.gap_cost) - 1

\* C34: after any sequence of edits of the cost settings in the settings
\* bar, a Levenshtein search is started with a swap cost of at least 1 and
\* at most 2 * min(mismatch cost, gap cost) - 1, also after the mismatch or
\* the gap cost was lowered below a swap cost that was in range before; and
\* the stored settings are in that range after every frame.
SearchStartsWithSwapCostInRange ==
    /\ (job.kind = "search" /\ job.mode = "Levenshtein") =>
           SwapCostInRange(job.searcher.lev)
    /\ SwapCostInRange(settings.levenshtein_settings)

SearchAfterSwapCostWasLowered ==
    /\ last.kind = "search_swap_clamped"
    /\ job.kind = "search" /\ job.mode = "Levenshtein"
    /\ job.searcher.lev = settings.levenshtein_settings
    /\ job.searcher.lev.mismatch_cost < job.searcher.lev.gap_cost

(***************************************************************************)
(* The mutexes.  Every thread is the list of what it has left to do:      *)
(* `lock` and `unlock` of a mutex (a guard is released where it goes out   *)
(* of scope or is dropped) and the steps in between.  A thread whose next  *)
(* step is `lock` on a mutex that is held waits.                           *)
(***************************************************************************)
Lock(l) == [op |-> "lock", on |-> l]
Unlock(l) == [op |-> "unlock", on |-> l]
Do(what) == [op |-> what, on |-> "none"]

\* The closure of for_each_with: the scan of the chunk without a guard, then
\* `s.results.lock().unwrap().append(&mut curr)`
WorkerProgram == <<Do("scan"), Lock("results"), Do("append"), Unlock("results")>>

\* A variant in which the guard of the snapshot is kept to the end of
\* do_fetch_info_inner, for comparison.
SnapshotKeepingGuard == <<Lock("results"), Do("snapshot")>>

\* `let results = s.results.lock().unwrap(); .. drop(results);`
Snapshot == <<Lock("results"), Do("snapshot"), Unlock("results")>>

\* do_fetch_info_inner: the snapshot, the lookups without a guard, then the
\* merge under a second guard if anything was found, then processing = false
FetchProgram ==
    Snapshot \o <<Do("lookup"), Lock("results"), Do("merge"), Unlock("results"),
                  Do("clear")>>

\* The thread of do_search: par_chunks returns when every worker is done;
\* the sort takes a guard of its own
SearchProgram(mode, fetch_info) ==
    <<Do("join")>>
    \o (IF mode = "Levenshtein"
        THEN <<Lock("results"), Do("sort"), Unlock("results")>> ELSE <<>>)
    \o (IF fetch_info THEN FetchProgram ELSE <<Do("clear")>>)

\* The thread of the close handler takes no mutex
CloseProgram == <<Do("close"), Do("clear")>>

\* A variant of the loader thread that raises the flag first, for
\* comparison.
LoaderProgramDoneFirst ==
    <<Do("read"), Do("done"), Lock("result"), Do("store"), Unlock("result")>>

\* The thread of load_plain: the value is computed first, then the slot is
\* locked and written, then `s.done.store(true, SeqCst)`
LoaderProgram ==
    <<Do("read"), Lock("result"), Do("store"), Unlock("result"), Do("done")>>

\* The update check of App::new
CheckerProgram == <<Do("get"), Lock("update"), Do("store_version"), Unlock("update")>>

Todo(t) == locks.todo[t]
Ahead(t) == Head(Todo(t))
Held(t) == {l \in Locks : locks.holder[l] = t}

\* What load_file can return
LoadErrors == {"No such file or directory", "stream did not contain valid UTF-8"}
LoadOutcomes ==
    {[kind |-> "Ok", data |-> corpus] : corpus \in FreshCorpora}
    \cup {[kind |-> "Err", msg |-> msg] : msg \in LoadErrors}

\* State::default() is PickFile
Unloaded == [FirstSession EXCEPT !.state = "PickFile"]

lock_vars == <<pattern, results, page, progress, progress_max, pc, job,
               thread_vars, fetch_vars, calls, probe, threads, settings, grid>>

\* `mutex.lock().unwrap()`: taken when free; on a poisoned mutex unwrap
\* panics, which ends the thread (and, in App::update, the program)
Acquire(t) ==
    /\ Todo(t) # <<>>
    /\ Ahead(t).op = "lock"
    /\ locks.holder[Ahead(t).on] = "free"
    /\ IF locks.poisoned /\ Ahead(t).on = "results"
       THEN /\ locks' = [locks EXCEPT
                   !.todo = IF t = "ui" THEN [u \in Threads |-> <<>>]
                            ELSE [@ EXCEPT ![t] = <<>>],
                   !.holder = [l \in Locks |->
                                  IF t = "ui" \/ @[l] = t THEN "free" ELSE @[l]]]
            /\ app' = IF t = "ui" THEN [app EXCEPT !.state = "Crashed"] ELSE app
            /\ last' = Step("poisoned", job)
       ELSE /\ locks' = [locks EXCEPT !.holder[Ahead(t).on] = t,
                                      !.todo[t] = Tail(@)]
            /\ app' = app
            /\ last' = Step("lock", job)
    /\ UNCHANGED <<users, processing, error, loading, lock_vars>>

\* The guard goes out of scope
Release(t) ==
    /\ Todo(t) # <<>>
    /\ Ahead(t).op = "unlock"
    /\ locks' = [locks EXCEPT !.holder[Ahead(t).on] = "free", !.todo[t] = Tail(@)]
    /\ last' = Step("unlock", job)
    /\ UNCHANGED <<users, processing, error, loading, app, lock_vars>>

\* Any other step of a thread.  `join`: par_chunks(..).for_each_with(..)
\* returns when every chunk is done; `lookup`: `if !api_users.is_empty()`
\* skips the merge; `get`: `if version != VERSION` skips the update slot;
\* `clear`: `processing.store(false, SeqCst)`; `done`:
\* `s.done.store(true, SeqCst)`; the rest touch no flag and no mutex.
Work(t, skip) ==
    /\ Todo(t) # <<>>
    /\ Ahead(t).op \notin {"lock", "unlock", "merge", "store", "take", "body"}
    /\ Ahead(t).op = "join" => \A w \in Workers : Todo(w) = <<>>
    /\ skip => Ahead(t).op \in {"lookup", "get"}
    /\ locks' = [locks EXCEPT !.todo[t] =
                    IF skip THEN (IF Ahead(t).op = "get" THEN <<>> ELSE <<Do("clear")>>)
                    ELSE Tail(@)]
    /\ processing' = (processing /\ Ahead(t).op # "clear")
    /\ loading' = [loading EXCEPT !.done = @ \/ Ahead(t).op = "done"]
    /\ last' = Step(Ahead(t).op, job)
    /\ UNCHANGED <<users, error, app, lock_vars>>

\* The merge: `results[..max]` panics when the collection has become shorter
\* than the snapshot; unwinding drops the guard and poisons the mutex
Merged(panics) ==
    /\ Todo("background") # <<>>
    /\ Ahead("background").op = "merge"
    /\ locks' = IF panics
                THEN [locks EXCEPT !.todo["background"] = <<>>,
                                   !.holder["results"] = "free",
                                   !.poisoned = TRUE]
                ELSE [locks EXCEPT !.todo["background"] = Tail(@)]
    /\ last' = Step(IF panics THEN "panic" ELSE "merge", job)
    /\ UNCHANGED <<users, processing, error, loading, app, lock_vars>>

\* `*s.result.lock().unwrap() = Some(load_file(path).map_err(..))`
Stored(outcome) ==
    /\ Todo("loader") # <<>>
    /\ Ahead("loader").op = "store"
    /\ loading' = [loading EXCEPT !.result = outcome]
    /\ locks' = [locks EXCEPT !.todo["loader"] = Tail(@)]
    /\ last' = Step("store", job)
    /\ UNCHANGED <<users, processing, error, app, lock_vars>>

\* PickFile branch, a file picked: load_plain
PickedFile ==
    /\ app.state = "PickFile"
    /\ Todo("ui") = <<>>
    /\ app' = [app EXCEPT !.state = "Loading"]
    /\ loading' = NoLoading
    /\ locks' = [locks EXCEPT !.todo["loader"] = LoaderProgram]
    /\ last' = Step("load_file", job)
    /\ UNCHANGED <<users, processing, error, lock_vars>>

\* Loading branch: `if s.done.load(SeqCst) { match s.result.lock().. }`; the
\* guard of the scrutinee lives to the end of the match
PollLoading ==
    /\ app.state = "Loading"
    /\ Todo("ui") = <<>>
    /\ loading.done
    /\ locks' = [locks EXCEPT !.todo["ui"] =
                    <<Lock("result"), Do("take"), Unlock("result")>>]
    /\ last' = Step("poll", job)
    /\ UNCHANGED <<users, processing, error, loading, app, lock_vars>>

\* `.take()` and the three arms of the match
Taken ==
    /\ Todo("ui") # <<>>
    /\ Ahead("ui").op = "take"
    /\ loading' = [loading EXCEPT
           !.result = [kind |-> "None"],
           !.taken = IF loading.result.kind = "None" THEN @
                     ELSE Append(@, loading.result)]
    /\ locks' = [locks EXCEPT !.todo["ui"] = Tail(@)]
    /\ CASE loading.result.kind = "Ok" ->
              /\ app' = [app EXCEPT !.state = "Loaded"]
              /\ users' = loading.result.data
              /\ processing' = FALSE
              /\ error' = error
         [] loading.result.kind = "Err" ->
              /\ app' = [app EXCEPT !.state = "PickFile"]
              /\ error' = loading.result.msg
              /\ UNCHANGED <<users, processing>>
         [] OTHER -> UNCHANGED <<app, users, processing, error>>
    /\ last' = Step("take", job)
    /\ UNCHANGED lock_vars

\* Loaded branch, a frame begins: the guard of `results` is held to the end
\* of the branch, the one of `update` inside it
BeginFrame ==
    /\ app.state = "Loaded"
    /\ Todo("ui") = <<>>
    /\ locks' = [locks EXCEPT !.todo["ui"] =
          <<Lock("results"), Do("body"), Lock("update"), Do("show_update"),
            Unlock("update"), Unlock("results")>>]
    /\ last' = Step("frame", job)
    /\ UNCHANGED <<users, processing, error, loading, app, lock_vars>>

\* What a frame can ask for
FrameChoices == {"none", "search", "fetch", "close"}

\* The handlers of the frame, reached only through the gate
\* `add_enabled_ui(!s.processing.load(SeqCst), ..)`
FrameBody(request, mode, fetch_info) ==
    /\ Todo("ui") # <<>>
    /\ Ahead("ui").op = "body"
    /\ request # "none" => ~processing
    /\ processing' = (processing \/ request # "none")
    /\ locks' = [locks EXCEPT !.todo =
          [t \in Threads |->
              IF t = "ui" THEN Tail(@[t])
              ELSE IF t = "background" /\ request = "search"
                   THEN SearchProgram(mode, fetch_info)
              ELSE IF t = "background" /\ request = "fetch" THEN FetchProgram
              ELSE IF t = "background" /\ request = "close" THEN CloseProgram
              ELSE IF t \in Workers /\ request = "search" THEN WorkerProgram
              ELSE @[t]]]
    /\ last' = Step(request, job)
    /\ UNCHANGED <<users, error, loading, app, lock_vars>>

\* App::new has spawned the update check; State::default() is shown
InitLocks ==
    /\ Loaded(<<>>)
    /\ pc = "idle"
    /\ job = NoJob
    /\ pos = <<>> /\ curr = <<>> /\ flushed = <<>>
    /\ names = <<>> /\ max = 0 /\ group = 0 /\ api_users = EmptyMap
    /\ error = "none"
    /\ last = Step("new", NoJob)
    /\ calls = <<>>
    /\ probe = NoProbe
    /\ app = Unloaded
    /\ threads = <<>>
    /\ settings = DefaultSettings
    /\ loading = NoLoading
    /\ locks = [NoLocks EXCEPT !.todo["checker"] = CheckerProgram]
    /\ grid = NoGrid

NextLocks ==
    \/ \E t \in Threads : Acquire(t)
    \/ \E t \in Threads : Release(t)
    \/ \E t \in Threads, skip \in BOOLEAN : Work(t, skip)
    \/ \E panics \in BOOLEAN : Merged(panics)
    \/ \E outcome \in LoadOutcomes : Stored(outcome)
    \/ PickedFile
    \/ PollLoading
    \/ Taken
    \/ BeginFrame
    \/ \E request \in FrameChoices, mode \in {"Plain", "Levenshtein"},
          fetch_info \in BOOLEAN : FrameBody(request, mode, fetch_info)

SpecLocks == InitLocks /\ [][NextLocks]_vars

\* A thread waits when its next step is a lock that is held, or the join of
\* workers that are not done.
WaitsOn(t) ==
    IF Todo(t) = <<>> THEN {}
    ELSE IF Ahead(t).op = "lock"
         THEN {locks.holder[Ahead(t).on]} \ {"free"}
    ELSE IF Ahead(t).op = "join" THEN {w \in Workers : Todo(w) # <<>>}
    ELSE {}
Waiting(t) == WaitsOn(t) # {}

\* t can go on, at once or after the threads it waits on have gone on
RECURSIVE CanGoOn(_, _)
CanGoOn(t, n) ==
    /\ Todo(t) # <<>>
    /\ \/ ~Waiting(t)
       \/ n > 0 /\ \A u \in WaitsOn(t) : CanGoOn(u, n - 1)

\* The one order in which two mutexes are ever held together
LockOrder == <<"results", "update", "result">>
Rank(l) == CHOOSE i \in DOMAIN LockOrder : LockOrder[i] = l

\* C35: no reachable state is a deadlock: every thread that waits for a mutex
\* (or for the workers) waits on threads that can go on, and a thread that
\* requests a mutex while holding another requests them in one fixed order,
\* so no cycle of waiting threads can form.
NoLockCycle ==
    \A t \in Threads :
        /\ Waiting(t) => CanGoOn(t, Cardinality(Threads))
        /\ (Todo(t) # <<>> /\ Ahead(t).op = "lock")
              => \A h \in Held(t) : Rank(h) < Rank(Ahead(t).on)

\* a worker waits for the results held by the frame, which itself waits for
\* the update slot held by the update check
WorkerWaitsBehindNestedFrame ==
    /\ \E w \in Workers : WaitsOn(w) = {"ui"}
    /\ WaitsOn("ui") = {"checker"}
    /\ Held("ui") = {"results"}

\* C37: the loader writes the slot before it raises the flag, so once the
\* flag is up the slot holds a result unless the poller has taken it; the
\* result is taken at most once, and the take ends the Loading state: Loaded
\* with the delivered corpus on success, the initial state with the very
\* message of the loader on failure.
SlotFilledBeforeDone ==
    /\ loading.done => (loading.result.kind # "None" \/ loading.taken # <<>>)
    /\ Len(loading.taken) <= 1
    /\ loading.taken # <<>> => loading.result.kind = "None"
    /\ (last.kind = "take" /\ loading.taken # <<>>) =>
          IF loading.taken[1].kind = "Ok"
          THEN app.state = "Loaded" /\ users = loading.taken[1].data
          ELSE app.state = "PickFile" /\ error = loading.taken[1].msg
    /\ app.state = "Loading" => loading.taken = <<>>

\* a second load, after a first one had failed, has delivered a corpus of
\* one account
LoadDeliveredAfterFailure ==
    /\ last.kind = "take"
    /\ error \in LoadErrors
    /\ loading.taken # <<>>
    /\ loading.taken[1].kind = "Ok"
    /\ Len(users) = 1
    /\ app.state = "Loaded"

\* The entries the workers of the running search have created
Created == UNION {{curr[c][n] : n \in DOMAIN curr[c]} : c \in DOMAIN curr}

\* C36: every Match a Plain, NumberReplacements or RegEx search creates has
\* score 0 and every Match a Levenshtein search creates has a score from 0 to
\* max_k; a Match just created is enabled, has no timestamps and no games.
CreatedMatchesAreScoredWithinTheLimit ==
    pc = "scan" =>
        \A m \in Created :
            /\ m.enabled /\ m.created_at = {} /\ m.seen_at = {} /\ m.games = 0
            /\ IF job.mode = "Levenshtein"
               THEN 0 <= m.k /\ m.k <= job.searcher.lev.max_k
               ELSE m.k = 0

\* a Levenshtein search has created an entry at distance 0 and another at
\* the greatest distance allowed
CreatedAtBothEndsOfTheRange ==
    /\ pc = "scan"
    /\ job.mode = "Levenshtein"
    /\ job.searcher.lev.max_k >= 1
    /\ \E m \in Created : m.k = 0
    /\ \E m \in Created : m.k = job.searcher.lev.max_k

(***************************************************************************)
(* The result grid of the Loaded branch: the page size, the buttons that   *)
(* replace the results, the slice that is shown, the buttons of a row, the *)
(* page navigation.  `grid` keeps what the frame has shown and clicked.    *)
(***************************************************************************)
MaxRows == 3

GridNames == {PoolName(1), PoolName(2)}

\* The order in which a HashSet is iterated is not specified
Listings(coll) ==
    {l \in UNION {[1..n -> coll] : n \in {Cardinality(coll)}} :
        {l[i] : i \in DOMAIN l} = coll}

\* A variant that shows the page as it is, for comparison.
RenderedSliceUnchecked(p, page_size, len) ==
    [min |-> p * page_size, max |-> Min2((p + 1) * page_size, len),
     page |-> p, reset |-> FALSE]

\* `let mut min = s.page * self.page_size; .. if min > max { .. s.page = 0; }`
RenderedSlice(p, page_size, len) ==
    LET least == p * page_size
        most == Min2((p + 1) * page_size, len)
    IN  IF least > most
        THEN [min |-> 0, max |-> Min2(page_size, len), page |-> 0, reset |-> TRUE]
        ELSE [min |-> least, max |-> most, page |-> p, reset |-> FALSE]

\* A variant in which a toggle leaves the other list alone, for comparison.
ToggleOwnListOnly(saved_obvious, saved_borderline, name, clicked_obv, clicked_border) ==
    LET obvious == name \in saved_obvious
        borderline == name \in saved_borderline
    IN  [saved_obvious |->
            IF clicked_obv
            THEN (IF obvious THEN saved_obvious \ {name} ELSE saved_obvious \cup {name})
            ELSE saved_obvious,
         saved_borderline |->
            IF clicked_border /\ ~(clicked_obv /\ ~obvious)
            THEN (IF borderline THEN saved_borderline \ {name}
                  ELSE saved_borderline \cup {name})
            ELSE saved_borderline]

\* The two removals and the one insertion after the buttons of a row
Toggle(saved_obvious, saved_borderline, name, clicked_obv, clicked_border) ==
    LET obvious == name \in saved_obvious
        borderline == name \in saved_borderline
        obv == IF clicked_border \/ (clicked_obv /\ obvious)
               THEN saved_obvious \ {name} ELSE saved_obvious
        bord == IF clicked_obv \/ (clicked_border /\ borderline)
                THEN saved_borderline \ {name} ELSE saved_borderline
    IN  IF clicked_obv /\ ~obvious
        THEN [saved_obvious |-> obv \cup {name}, saved_borderline |-> bord]
        ELSE IF clicked_border /\ ~borderline
        THEN [saved_obvious |-> obv, saved_borderline |-> bord \cup {name}]
        ELSE [saved_obvious |-> obv, saved_borderline |-> bord]

\* What the operator does in one frame: a value entered as page size, one of
\* the buttons that replace the results, Enter in the search box, a button
\* of the row `arg` of the page, Prev or Next
GridEvents ==
    [kind : {"none", "show_obvious", "show_borderline", "clipboard", "search",
             "prev", "next"}, arg : {0}]
    \cup [kind : {"page_size"}, arg : 0..(MaxPageSize + 1)]
    \cup [kind : {"obvious", "borderline", "both", "x"}, arg : 1..MaxPageSize]

\* One frame of the Loaded branch
GridFrame(event, scroll) ==
    LET page_size == DragValue(settings.page_size,
                               IF event.kind = "page_size" THEN {event.arg} ELSE {},
                               MinPageSize, MaxPageSize)
        lists == CASE event.kind = "show_obvious" -> Listings(settings.saved_obvious)
                   [] event.kind = "show_borderline" -> Listings(settings.saved_borderline)
                   [] event.kind = "clipboard" -> {<< PoolName(2) >>}
                   [] OTHER -> {<<>>}
    IN  \E listed \in lists :
        LET shown == IF event.kind \in {"show_obvious", "show_borderline", "clipboard"}
                     THEN [i \in 1..Len(listed) |-> MatchFrom(listed[i])]
                     ELSE IF event.kind = "search" THEN <<>>
                     ELSE results
            slice == RenderedSlice(IF event.kind = "search" THEN 0 ELSE page,
                                   page_size, Len(shown))
            on_row == event.kind \in {"obvious", "borderline", "both", "x"}
            row == slice.min + event.arg
        IN  /\ on_row => row <= slice.max /\ row <= Len(shown)
            /\ event.kind = "prev" => slice.page > 0
            /\ event.kind = "next" => (slice.page + 1) * page_size < Len(shown)
            /\ LET name == IF on_row THEN shown[row].name ELSE <<>>
                   saved == IF on_row
                            THEN Toggle(settings.saved_obvious, settings.saved_borderline,
                                        name, event.kind \in {"obvious", "both"},
                                        event.kind \in {"borderline", "both"})
                            ELSE [saved_obvious |-> settings.saved_obvious,
                                  saved_borderline |-> settings.saved_borderline]
                   kept == IF event.kind = "x"
                           THEN SelectSeq(shown, LAMBDA u : u.id # shown[row].id)
                           ELSE shown
                   turned == CASE event.kind = "prev" -> slice.page - 1
                               [] event.kind = "next" -> slice.page + 1
                               [] OTHER -> slice.page
                   scrolled == IF scroll > 0 /\ turned > 0 THEN turned - 1
                               ELSE IF scroll < 0 /\ (turned + 1) * page_size < Len(kept)
                               THEN turned + 1
                               ELSE turned
               IN  /\ results' = kept
                   /\ page' = scrolled
                   /\ settings' = [settings EXCEPT
                          !.page_size = page_size,
                          !.saved_obvious = saved.saved_obvious,
                          !.saved_borderline = saved.saved_borderline]
                   /\ grid' = [min |-> slice.min, max |-> slice.max, len |-> Len(shown),
                               reset |-> slice.reset,
                               clicked |-> IF on_row THEN event.kind ELSE "none",
                               name |-> name,
                               obvious |-> name \in settings.saved_obvious,
                               borderline |-> name \in settings.saved_borderline]
    /\ last' = Step(event.kind, job)
    /\ UNCHANGED <<users, pattern, processing, progress, progress_max, pc, job,
                   thread_vars, fetch_vars, error, calls, probe, app, threads,
                   loading, locks>>

\* Between two frames a worker of the search appends what it has found
Arrive(name) ==
    /\ Len(results) < MaxRows
    /\ results' = Append(results, MatchFrom(name))
    /\ last' = Step("flush", job)
    /\ UNCHANGED <<users, pattern, processing, page, progress, progress_max, pc,
                   job, thread_vars, fetch_vars, error, calls, probe, app, threads,
                   settings, loading, locks, grid>>

\* ... or the enrichment drops the entries of a closed account
Hidden(name) ==
    /\ \E n \in 1..Len(results) : results[n].name = name
    /\ results' = SelectSeq(results, LAMBDA u : u.name # name)
    /\ last' = Step("merge", job)
    /\ UNCHANGED <<users, pattern, processing, page, progress, progress_max, pc,
                   job, thread_vars, fetch_vars, error, calls, probe, app, threads,
                   settings, loading, locks, grid>>

\* The saved lists are kept from one run of the program to the next
InitGrid ==
    /\ \E corpus \in Corpora : Len(corpus) = 2 /\ Loaded(corpus)
    /\ pc = "idle"
    /\ job = NoJob
    /\ pos = <<>> /\ curr = <<>> /\ flushed = <<>>
    /\ names = <<>> /\ max = 0 /\ group = 0 /\ api_users = EmptyMap
    /\ error = "none"
    /\ last = Step("loaded", NoJob)
    /\ calls = <<>>
    /\ probe = NoProbe
    /\ app = FirstSession
    /\ threads = <<>>
    /\ \E obv \in SUBSET GridNames, bord \in SUBSET GridNames :
          /\ obv \cap bord = {}
          /\ settings = [DefaultSettings EXCEPT !.saved_obvious = obv,
                                                !.saved_borderline = bord]
    /\ loading = NoLoading
    /\ locks = NoLocks
    /\ grid = NoGrid

NextGrid ==
    \/ \E event \in GridEvents, scroll \in {-1, 0, 1} :
          /\ scroll # 0 => event.kind \in {"none", "prev", "next", "x"}
          /\ GridFrame(event, scroll)
    \/ \E name \in GridNames : Arrive(name)
    \/ \E name \in GridNames : Hidden(name)

SpecGrid == InitGrid /\ [][NextGrid]_vars

\* C38: starting from disjoint saved lists, no name is ever in both; a click
\* on a toggle puts the name into its list exactly when it was not in it, and
\* the name is then in no other list.
SavedListsStayDisjoint ==
    /\ settings.saved_obvious \cap settings.saved_borderline = {}
    /\ grid.clicked = "obvious" =>
          /\ grid.name \in settings.saved_obvious <=> ~grid.obvious
          /\ grid.name \notin settings.saved_borderline
    /\ grid.clicked = "borderline" =>
          /\ grid.name \in settings.saved_borderline <=> ~grid.borderline
          /\ grid.name \notin settings.saved_obvious

\* a name of the borderline list has been moved to the obvious list
MovedFromBorderlineToObvious ==
    /\ grid.clicked = "obvious"
    /\ grid.borderline /\ ~grid.obvious
    /\ grid.name \in settings.saved_obvious
    /\ grid.name \notin settings.saved_borderline

\* C39: the slice of the results a frame shows satisfies
\* 0 <= min <= max <= results.len(), whatever searches, page turns, page
\* sizes, removals and replacements came before.
ShownSliceWithinResults ==
    /\ 0 <= grid.min
    /\ grid.min <= grid.max
    /\ grid.max <= grid.len

\* the page was beyond the end of the results and the frame went back to the
\* first page, which is not empty
WentBackToFirstPage ==
    /\ grid.reset
    /\ grid.min = 0
    /\ grid.max > 0
    /\ page = 0

====
